---- MODULE Spec2Model ----
(***************************************************************************)
(* A model of the analytics backend of fb-comment-analyzer:                *)
(*   - fetch_comments._get, the GET wrapper with retries;                  *)
(*   - backend.ensure_engagement_columns and backend._apply_time_window;   *)
(*   - backend._get_post_bundle and its in-process cache _POST_CACHE;      *)
(*   - backend.compute_benchmarks and the history file behind it;          *)
(*   - the request handlers analyze_view, api_analyze, api_analyze_window; *)
(*   - backend.compute_insights and its distributions;                     *)
(*   - backend._time_analytics: buckets, spikes and the contagion matrix;  *)
(*   - backend.tokenize and backend.top_keywords;                          *)
(*   - backend._history_load on a history file that json cannot parse.     *)
(* Percentages are kept in tenths of a percent (667 is 66.7), the way the  *)
(* code rounds them to one decimal.                                        *)
(***************************************************************************)
EXTENDS Integers, Sequences, FiniteSets, TLC

VARIABLES
  get_pc,       \* _get: "idle", "loop", "done" or "raised"
  get_tries,    \* _get: the tries parameter
  get_i,        \* _get: the loop index i
  get_last,     \* _get: the local last (None before the first response)
  get_ret,      \* _get: the returned response (None until it returns)
  get_resps,    \* _get: the status of every response received, in order
  get_slept     \* _get: the argument of every time.sleep call, in order

getVars == <<get_pc, get_tries, get_i, get_last, get_ret, get_resps, get_slept>>

VARIABLES
  eng_pc,       \* table pipeline: "raw", then "cached" once the bundle is built
  eng_raw,      \* the table fetch_comments returned
  eng_df,       \* the table of the bundle (bundle[0]), NoTable before
  eng_args,     \* start, end and range of the api_analyze_window request
  eng_dfw       \* the slice handed to compute_insights, NoTable if none

engVars == <<eng_pc, eng_raw, eng_df, eng_args, eng_dfw>>

VARIABLES
  hist,         \* the history file: its entries [id, ts, kpis] in file order
  hist_ok,      \* whether json.load can parse the history file as it is
  now,          \* int(time.time())
  lastCall,     \* per post id, the kpis of the latest compute_benchmarks call
  bench         \* the latest compute_benchmarks call and what it returned

histVars == <<hist, hist_ok, now, lastCall, bench>>

VARIABLES
  remote,       \* per post id, how many comments the post has on the platform
  cache,        \* _POST_CACHE: post id -> bundle
  owner,        \* per cached post id, the token whose fetch filled the entry
  resp          \* the latest request and what its handler worked out

reqVars == <<remote, cache, owner, resp>>

VARIABLES
  th_pc,        \* per thread inside compute_benchmarks: "idle" or "loaded"
  th_post,      \* per thread, its post_id
  th_hist       \* per thread, its local hist

concVars == <<th_pc, th_post, th_hist>>

VARIABLES
  norm_how,     \* the latest ensure_engagement_columns call: "new" before it,
                \* "direct" (the caller's table passed), "copy" (a copy of it
                \* passed) or "again" (the normalized table passed once more)
  norm_df,      \* the caller's table
  norm_prev,    \* the table object passed, as it was before the call
  norm_arg,     \* the table object passed, as it is after the call
  norm_ret      \* the table the call returned

normVars == <<norm_how, norm_df, norm_prev, norm_arg, norm_ret>>

VARIABLES
  ins_pc,       \* compute_insights: "table" before the call, "done" after it
  ins_raw,      \* the table fetch_comments and analyze_df gave
  ins_path,     \* how the table reached compute_insights: "direct", "bundle"
                \* (_get_post_bundle / api_analyze) or "none"
  ins_raised,   \* the call raised
  ins_out       \* the insight bundle the path produced

insVars == <<ins_pc, ins_raw, ins_path, ins_raised, ins_out>>

VARIABLES
  ta_pc,        \* _time_analytics: "table" before the call, "done" after it
  ta_df,        \* the table given to _time_analytics (times in minutes)
  ta_raised,    \* the call raised
  ta_out        \* what the call returned

taVars == <<ta_pc, ta_df, ta_raised, ta_out>>

VARIABLES
  kw_pc,        \* top_keywords: "text" before the call, "done" after it
  kw_words,     \* the words of the comment text, which a space separates
  kw_out        \* the (word, count) pairs the call returned

kwVars == <<kw_pc, kw_words, kw_out>>

vars == <<getVars, engVars, histVars, reqVars, concVars, normVars, insVars,
          taVars, kwVars>>

\* what the steps of one part of the model leave alone
notGet == <<engVars, histVars, reqVars, concVars, normVars, insVars,
  taVars, kwVars>>
notEng == <<getVars, histVars, reqVars, concVars, normVars, insVars,
  taVars, kwVars>>
notHist == <<getVars, engVars, reqVars, concVars, normVars, insVars,
  taVars, kwVars>>
notReq == <<getVars, engVars, concVars, normVars, insVars,
  taVars, kwVars>>
notConc == <<getVars, engVars, reqVars, normVars, insVars,
  taVars, kwVars>>

notNorm == <<getVars, engVars, histVars, reqVars, concVars, insVars,
  taVars, kwVars>>
notIns == <<getVars, engVars, histVars, reqVars, concVars, normVars,
  taVars, kwVars>>
notTa == <<getVars, engVars, histVars, reqVars, concVars, normVars, insVars,
  kwVars>>
notKw == <<getVars, engVars, histVars, reqVars, concVars, normVars, insVars,
  taVars>>

None == "None"

(***************************************************************************)
(* Helpers                                                                 *)
(***************************************************************************)
RECURSIVE SumSeq(_)
SumSeq(s) == IF s = <<>> THEN 0 ELSE s[1] + SumSeq(Tail(s))

Min(a, b) == IF a <= b THEN a ELSE b

Max(a, b) == IF a >= b THEN a ELSE b

\* dict.get(k, default)
DictGet(d, k, default) == IF k \in DOMAIN d THEN d[k] ELSE default

\* the empty dict {}
EmptyDict == [k \in {} |-> 0]

(***************************************************************************)
(* Comment tables (pandas DataFrames): the set of columns and the rows,    *)
(* each row a function from the columns to values.  Times are whole hours. *)
(***************************************************************************)
REACTION_COLS == <<"like_count", "love_count", "haha_count", "wow_count",
                   "sad_count", "angry_count", "care_count">>

ReactionSet == {REACTION_COLS[k] : k \in 1..Len(REACTION_COLS)}

\* the columns of a fetched table the model keeps, with the labels the
\* sentiment model and the emotion model give the comment text
RawCols == ReactionSet \cup {"reply_count", "created_time", "language",
                             "sentiment", "emotion"}

\* values that are no time: every time of the model is greater than these
NaT == -1000        \* pd.NaT
Absent == -1001     \* None (a request argument that is not given)
BadStamp == -1002   \* a string that does not parse as a time

IsTime(v) == v > NaT

NoTable == [cols |-> {}, rows |-> <<>>]

IsEmpty(df) == df.rows = <<>>

\* the comments the model draws tables from
BaseRows == <<
  [like_count |-> 3, love_count |-> 0, haha_count |-> 1, wow_count |-> 0,
   sad_count |-> 0, angry_count |-> 0, care_count |-> 1, reply_count |-> 0,
   created_time |-> 100, language |-> "en", sentiment |-> "positive",
   emotion |-> "joy"],
  [like_count |-> 0, love_count |-> 2, haha_count |-> 0, wow_count |-> 1,
   sad_count |-> 1, angry_count |-> 4, care_count |-> 0, reply_count |-> 2,
   created_time |-> 130, language |-> "bn", sentiment |-> "negative",
   emotion |-> "anger"],
  [like_count |-> 1, love_count |-> 0, haha_count |-> 0, wow_count |-> 0,
   sad_count |-> 0, angry_count |-> 0, care_count |-> 0, reply_count |-> 1,
   created_time |-> 131, language |-> "", sentiment |-> "neutral",
   emotion |-> "neutral"],
  [like_count |-> 0, love_count |-> 1, haha_count |-> 2, wow_count |-> 0,
   sad_count |-> 0, angry_count |-> 0, care_count |-> 0, reply_count |-> 0,
   created_time |-> BadStamp, language |-> "EN", sentiment |-> "positive",
   emotion |-> "joy"] >>

\* row r cut down to the columns cols
Project(r, cols) == [c \in cols |-> r[c]]

\* df[c] = v for a column c: every row gets c, with the value v(row)
SetColumn(df, c, v(_)) ==
  [cols |-> df.cols \cup {c},
   rows |-> [k \in 1..Len(df.rows) |->
              [x \in df.cols \cup {c} |->
                 IF x = c THEN v(df.rows[k]) ELSE df.rows[k][x]]]]

\* the columns of cs (in order) that df lacks, each added as 0
RECURSIVE AddMissing(_, _)
AddMissing(df, cs) ==
  IF cs = <<>> THEN df
  ELSE AddMissing(IF Head(cs) \in df.cols THEN df
                  ELSE SetColumn(df, Head(cs), LAMBDA r : 0),
                  Tail(cs))

\* df[cs].sum(axis=1) for one row
RECURSIVE RowSum(_, _)
RowSum(r, cs) == IF cs = <<>> THEN 0 ELSE r[Head(cs)] + RowSum(r, Tail(cs))

\* ensure_engagement_columns without the care_count column in the sum
EnsureIgnoringCare(df) ==
  LET d1 == AddMissing(df, REACTION_COLS)
      d2 == SetColumn(d1, "total_reactions",
                      LAMBDA r : RowSum(r, SubSeq(REACTION_COLS, 1, 6)))
      d3 == AddMissing(d2, <<"reply_count">>)
  IN  SetColumn(d3, "engagement_score",
                LAMBDA r : r["total_reactions"] + r["reply_count"])

\* ensure_engagement_columns adding the sum to a total_reactions the table
\* already has
EnsureAccumulating(df) ==
  LET d1 == AddMissing(df, REACTION_COLS)
      d2 == SetColumn(d1, "total_reactions",
                      LAMBDA r : RowSum(r, REACTION_COLS)
                                 + (IF "total_reactions" \in DOMAIN r
                                      THEN r["total_reactions"] ELSE 0))
      d3 == AddMissing(d2, <<"reply_count">>)
  IN  SetColumn(d3, "engagement_score",
                LAMBDA r : r["total_reactions"] + r["reply_count"])

\* ensure_engagement_columns(df): the table it leaves in df and returns
ensure_engagement_columns(df) ==
  LET d1 == AddMissing(df, REACTION_COLS)
      d2 == SetColumn(d1, "total_reactions",
                      LAMBDA r : RowSum(r, REACTION_COLS))
      d3 == AddMissing(d2, <<"reply_count">>)
  IN  SetColumn(d3, "engagement_score",
                LAMBDA r : r["total_reactions"] + r["reply_count"])

\* parse_dt(v): a pandas Timestamp, NaT for what does not parse
parse_dt(v) == IF IsTime(v) THEN v ELSE NaT

\* compute_top_comments_panel(df, insights), lines 400-407: the columns it
\* adds to the table it is given when they are missing
TopCommentsBaseCols(df) ==
  IF IsEmpty(df) THEN df
  ELSE LET d1 == AddMissing(df, REACTION_COLS)
           d2 == IF "total_reactions" \in d1.cols THEN d1
                 ELSE SetColumn(d1, "total_reactions",
                                LAMBDA r : RowSum(r, REACTION_COLS))
           d3 == AddMissing(d2, <<"reply_count">>)
       IN  IF "engagement_score" \in d3.cols THEN d3
           ELSE SetColumn(d3, "engagement_score",
                          LAMBDA r : r["total_reactions"] + r["reply_count"])

\* _parse_iso(dt_str): None for an empty or unparseable string
ParseIso(x) == IF IsTime(x) THEN x ELSE Absent

SetMin(S) == CHOOSE x \in S : \A y \in S : x <= y
SetMax(S) == CHOOSE x \in S : \A y \in S : x >= y

\* a range token: given (a non-empty string), amt (its digits read as an
\* integer, NoDigits when it has none) and unit (the letter after them)
NoDigits == -1
NoRange == [given |-> FALSE, amt |-> NoDigits, unit |-> "h"]

\* the start of the window that _apply_time_window filters by
WindowStart(df, start, end, rng) ==
  LET ts    == {parse_dt(df.rows[k]["created_time"]) : k \in 1..Len(df.rows)}
      valid == {t \in ts : IsTime(t)}
      tmin  == IF valid = {} THEN NaT ELSE SetMin(valid)
      tmax  == IF valid = {} THEN NaT ELSE SetMax(valid)
      s0    == ParseIso(start)
      e0    == ParseIso(end)
      byRng == rng.given /\ s0 = Absent /\ e0 = Absent /\ rng.amt # NoDigits
      delta == IF rng.unit = "d" THEN 24 * rng.amt ELSE rng.amt
      s1    == IF byRng THEN (IF tmax # NaT THEN tmax - delta ELSE Absent)
               ELSE s0
  IN  IF s1 = Absent THEN tmin ELSE s1

\* the end of the window that _apply_time_window filters by
WindowEnd(df, start, end, rng) ==
  LET ts    == {parse_dt(df.rows[k]["created_time"]) : k \in 1..Len(df.rows)}
      valid == {t \in ts : IsTime(t)}
      tmax  == IF valid = {} THEN NaT ELSE SetMax(valid)
      s0    == ParseIso(start)
      e0    == ParseIso(end)
      byRng == rng.given /\ s0 = Absent /\ e0 = Absent /\ rng.amt # NoDigits
      e1    == IF byRng THEN tmax ELSE e0
  IN  IF e1 = Absent THEN tmax ELSE e1

\* _apply_time_window with the end bound left out of the window
ApplyTimeWindowOpenEnd(df, start, end, rng) ==
  IF "created_time" \notin df.cols THEN df
  ELSE LET s == WindowStart(df, start, end, rng)
           e == WindowEnd(df, start, end, rng)
           keep(r) == LET t == parse_dt(r["created_time"])
                      IN  /\ t # NaT /\ s # NaT /\ e # NaT
                          /\ t >= s /\ t < e
       IN  [cols |-> df.cols, rows |-> SelectSeq(df.rows, keep)]

\* _apply_time_window(df, start, end, rng)
ApplyTimeWindow(df, start, end, rng) ==
  IF "created_time" \notin df.cols THEN df
  ELSE LET s == WindowStart(df, start, end, rng)
           e == WindowEnd(df, start, end, rng)
           keep(r) == LET t == parse_dt(r["created_time"])
                      IN  /\ t # NaT /\ s # NaT /\ e # NaT
                          /\ t >= s /\ t <= e
       IN  [cols |-> df.cols, rows |-> SelectSeq(df.rows, keep)]

(***************************************************************************)
(* compute_insights: the four kpis that compute_benchmarks ranks.          *)
(* advocacy and safety_score are in tenths, avg_reactions_per_comment in   *)
(* hundredths.                                                             *)
(***************************************************************************)
\* round(num / den) to the nearest integer, ties to the even one (what
\* Python's round does with the ties that occur here, which are exact)
RoundHalfEven(num, den) ==
  LET q == num \div den
      r == num % den
  IN  IF 2 * r > den THEN q + 1
      ELSE IF 2 * r < den THEN q
      ELSE IF q % 2 = 0 THEN q ELSE q + 1

\* how many rows have the sentiment label lab
CountLabel(df, lab) ==
  Cardinality({k \in 1..Len(df.rows) : df.rows[k]["sentiment"] = lab})

RECURSIVE SumColumn(_, _)
SumColumn(rows, c) ==
  IF rows = <<>> THEN 0 ELSE Head(rows)[c] + SumColumn(Tail(rows), c)

\* a column of df as a sequence, one value per row
Column(df, c) == [k \in 1..Len(df.rows) |-> df.rows[k][c]]

\* how many entries of the sequence col are v
CountIn(col, v) == Cardinality({k \in 1..Len(col) : col[k] = v})

\* the counts of the labels in labels, the largest first
RECURSIVE CountsDesc(_, _)
CountsDesc(col, labels) ==
  IF labels = {} THEN <<>>
  ELSE LET l == CHOOSE x \in labels :
                  \A y \in labels : CountIn(col, x) >= CountIn(col, y)
       IN  <<CountIn(col, l)>> \o CountsDesc(col, labels \ {l})

\* the counts of the labels in labels, in the order the labels were first
\* met in col
RECURSIVE CountsAsMet(_, _)
CountsAsMet(col, seen) ==
  IF col = <<>> THEN <<>>
  ELSE LET rest == CountsAsMet(Tail(col), seen \cup {Head(col)})
       IN  IF Head(col) \in seen THEN rest
           ELSE <<1 + CountIn(Tail(col), Head(col))>> \o rest

\* s.value_counts() without its sort
ValueCountsUnsorted(col) == CountsAsMet(col, {})

\* s.value_counts(): the count of every value of col, the largest first
\* (the labels are left out: pandas fixes no order among equal counts)
ValueCounts(col) == CountsDesc(col, {col[k] : k \in 1..Len(col)})

\* s.head(n)
TakeHead(s, n) == SubSeq(s, 1, Min(n, Len(s)))

EmotionCap == 7     \* head(7)
LanguageCap == 6    \* head(6)

\* .fillna('unknown').astype(str).str.lower().replace({'bn': 'bangla',
\* 'en': 'english'}) for one language value
LangName(l) ==
  LET low == IF l = "EN" THEN "en" ELSE IF l = "BN" THEN "bn" ELSE l
  IN  IF l = None THEN "unknown"
      ELSE IF low = "bn" THEN "bangla"
      ELSE IF low = "en" THEN "english"
      ELSE low

\* the columns compute_insights reads without testing for them
InsightCols ==
  ReactionSet \cup {"total_reactions", "engagement_score", "language",
                    "sentiment", "emotion"}

\* compute_insights(df) raises KeyError: df lacks a column it reads
InsightsRaises(df) == ~(InsightCols \subseteq df.cols)

\* ts.dt.date.value_counts().sort_index(): comments per day, rows with a
\* NaT timestamp not counted
ByDay(df) ==
  LET ts   == [k \in 1..Len(df.rows) |-> parse_dt(df.rows[k]["created_time"])]
      days == {ts[k] \div 24 : k \in {j \in 1..Len(ts) : IsTime(ts[j])}}
      RECURSIVE Asc(_)
      Asc(S) == IF S = {} THEN <<>>
                ELSE LET d == SetMin(S)
                     IN  <<Cardinality({k \in 1..Len(ts) :
                                          IsTime(ts[k]) /\ ts[k] \div 24 = d})>>
                         \o Asc(S \ {d})
  IN  Asc(days)

\* the labels of the daily timeline if every day from the first to the last
\* were listed
DayLabelsFilled(df) ==
  LET ts   == [k \in 1..Len(df.rows) |-> parse_dt(df.rows[k]["created_time"])]
      days == {ts[k] \div 24 : k \in {j \in 1..Len(ts) : IsTime(ts[j])}}
  IN  IF days = {} THEN <<>>
      ELSE [i \in 1..(SetMax(days) - SetMin(days) + 1) |-> SetMin(days) + i - 1]

\* the index of by_day, one strftime("%Y-%m-%d") label for each day that has
\* a comment, in ascending order; a label is written as the number of its
\* day, which orders as the label text does
DayLabels(df) ==
  LET ts   == [k \in 1..Len(df.rows) |-> parse_dt(df.rows[k]["created_time"])]
      days == {ts[k] \div 24 : k \in {j \in 1..Len(ts) : IsTime(ts[j])}}
      RECURSIVE Asc(_)
      Asc(S) == IF S = {} THEN <<>>
                ELSE <<SetMin(S)>> \o Asc(S \ {SetMin(S)})
  IN  Asc(days)

\* neu, as the number of rows labelled neutral
NeutralByLabel(df) == CountLabel(df, "neutral")

\* neu = total_comments - pos - neg
NeutralCount(df) ==
  Len(df.rows) - CountLabel(df, "positive") - CountLabel(df, "negative")

compute_insights(df) ==
  LET total_comments == Len(df.rows)
      pos == CountLabel(df, "positive")
      neg == CountLabel(df, "negative")
      neu == NeutralCount(df)
      avg_react == IF total_comments > 0
                     THEN RoundHalfEven(
                            100 * SumColumn(df.rows, "total_reactions"),
                            total_comments)
                     ELSE 0
      safety_score ==
        Max(0, 1000 - RoundHalfEven(1000 * neg, Max(1, total_comments)))
      advocacy == RoundHalfEven(1000 * pos, Max(1, total_comments))
      langs == [k \in 1..Len(df.rows) |-> LangName(df.rows[k]["language"])]
  IN  [kpis |-> [total_comments |-> total_comments,
                 avg_reactions_per_comment |-> avg_react,
                 safety_score |-> safety_score,
                 advocacy |-> advocacy],
       sentiment |-> [values |-> <<pos, neg, Max(0, neu)>>],
       emotions |-> [values |-> TakeHead(ValueCounts(Column(df, "emotion")),
                                         EmotionCap)],
       languages |-> [values |-> TakeHead(ValueCounts(langs), LanguageCap)],
       reactions |-> [values |-> [k \in 1..Len(REACTION_COLS) |->
                                    SumColumn(df.rows, REACTION_COLS[k])]],
       timeline |-> [labels |-> IF "created_time" \in df.cols
                                  THEN DayLabels(df) ELSE <<>>,
                     values |-> IF "created_time" \in df.cols
                                  THEN ByDay(df) ELSE <<>>]]

(***************************************************************************)
(* The life of one comment table: fetched, made into the bundle of         *)
(* _get_post_bundle, shown by analyze_view, sliced by api_analyze_window.  *)
(***************************************************************************)
MaxRows == 2      \* the longest fetched table
MaxAmt == 1       \* the largest amount of a range token

\* the columns a fetched table may lack
Optional == ReactionSet \cup {"reply_count", "created_time"}

RowSeqs == UNION {[1..n -> 1..Len(BaseRows)] : n \in 0..MaxRows}

RawTable(missing, idx) ==
  IF idx = <<>> THEN NoTable
  ELSE [cols |-> RawCols \ missing,
        rows |-> [k \in 1..Len(idx) |->
                   Project(BaseRows[idx[k]], RawCols \ missing)]]

\* a fetched table lacks none of them, one of them, or all of them
MissingChoices == {{}, Optional} \cup {{c} : c \in Optional}

RawTables ==
  {RawTable(missing, idx) : missing \in MissingChoices, idx \in RowSeqs}

TimeArgs == {Absent, BadStamp, 130}

Ranges == {NoRange} \cup
          {[given |-> TRUE, amt |-> a, unit |-> u] :
             a \in {NoDigits} \cup (1..MaxAmt), u \in {"d", "h"}}

WindowArgs == [start : TimeArgs, end : TimeArgs, rng : Ranges]

NoArgs == [start |-> Absent, end |-> Absent, rng |-> NoRange]

\* no table is in the pipeline
IdleEng ==
  /\ eng_pc = "off"
  /\ eng_raw = NoTable
  /\ eng_df = NoTable
  /\ eng_args = NoArgs
  /\ eng_dfw = NoTable

InitEng ==
  /\ eng_pc = "raw"
  /\ eng_raw \in RawTables
  /\ eng_df = NoTable
  /\ eng_args \in WindowArgs
  /\ eng_dfw = NoTable

\* the table of the bundle _get_post_bundle builds from the fetched df
BundleTable(df) ==
  IF IsEmpty(df) THEN NoTable
  ELSE LET d1 == ensure_engagement_columns(df)
       IN  IF "created_time" \in d1.cols
             THEN SetColumn(d1, "created_time",
                            LAMBDA r : parse_dt(r["created_time"]))
             ELSE d1

\* _get_post_bundle on a cache miss: the bundle is built and cached
EngBundle ==
  /\ eng_pc = "raw"
  /\ eng_df' = BundleTable(eng_raw)
  /\ eng_pc' = "cached"
  /\ UNCHANGED <<eng_raw, eng_args, eng_dfw, notEng>>

\* analyze_view, view top_comments: compute_top_comments_panel works on the
\* table of the cached bundle itself
EngTopComments ==
  /\ eng_pc = "cached"
  /\ eng_df' = TopCommentsBaseCols(eng_df)
  /\ UNCHANGED <<eng_pc, eng_raw, eng_args, eng_dfw, notEng>>

\* api_analyze_window: the slice of a copy of the cached table goes to
\* compute_insights unless the table or the slice is empty
EngWindow ==
  /\ eng_pc = "cached"
  /\ eng_dfw' = IF IsEmpty(eng_df) THEN NoTable
                ELSE LET dfw == ApplyTimeWindow(eng_df, eng_args.start,
                                                eng_args.end, eng_args.rng)
                     IN  IF IsEmpty(dfw) THEN NoTable ELSE dfw
  /\ UNCHANGED <<eng_pc, eng_raw, eng_df, eng_args, notEng>>

NextEng ==
  \/ EngBundle
  \/ EngTopComments
  \/ EngWindow

\* _apply_time_window on its own: a normalized table, with or without the
\* created_time column, and the arguments of a request
InitWin ==
  /\ eng_pc = "window"
  /\ eng_raw \in {RawTable(missing, idx) :
                    missing \in {{}, {"created_time"}}, idx \in RowSeqs}
  /\ eng_df = BundleTable(eng_raw)
  /\ eng_args \in WindowArgs
  /\ eng_dfw = NoTable

\* dfw = _apply_time_window(df.copy(), start, end, rng)
WinApply ==
  /\ eng_pc = "window"
  /\ eng_pc' = "sliced"
  /\ eng_dfw' = ApplyTimeWindow(eng_df, eng_args.start, eng_args.end,
                                eng_args.rng)
  /\ UNCHANGED <<eng_raw, eng_df, eng_args, notEng>>

NextWin == WinApply

\* bundle[1] of _get_post_bundle for the fetched table df: {} when it is empty
BundleData(df) ==
  IF IsEmpty(df) THEN EmptyDict ELSE compute_insights(BundleTable(df))

(***************************************************************************)
(* compute_benchmarks and the history file                                 *)
(***************************************************************************)
HistWindow == 20   \* list(hist.items())[-20:]

Metrics == {"advocacy", "safety_score", "avg_reactions_per_comment",
            "total_comments"}

NoPct == -1        \* None as a percentile

MaxTime == 1       \* the clock stops here
OldPosts == 20     \* the posts of a history file left by earlier runs

\* the position of post id p in the history h, 0 when it has none
PosOf(h, p) ==
  IF \E k \in 1..Len(h) : h[k].id = p
    THEN CHOOSE k \in 1..Len(h) : h[k].id = p
    ELSE 0

\* hist[p] = snap, with an entry p already has left as it is
HistPutKeepOld(h, p, snap) ==
  IF PosOf(h, p) # 0 THEN h ELSE Append(h, snap)

\* hist[p] = snap on a dict: an entry p already has is overwritten where
\* it stands, a new one comes last
HistPut(h, p, snap) ==
  IF PosOf(h, p) # 0
    THEN [h EXCEPT ![PosOf(h, p)] = snap]
    ELSE Append(h, snap)

\* _history_load with the except clause left out: the entries the file
\* was written with, whatever became of it
HistoryLoadAsWritten == hist

\* _history_load(): the entries of the file, {} when json.load fails
HistoryLoad == IF hist_ok THEN hist ELSE <<>>

\* list(hist.items())[-20:]
Trailing(h) == SubSeq(h, Max(1, Len(h) - HistWindow + 1), Len(h))

\* the kpis of the trailing entries that have any
Items(h) ==
  LET t == SelectSeq(Trailing(h), LAMBDA x : x.kpis # EmptyDict)
  IN  [k \in 1..Len(t) |-> t[k].kpis]

\* the number of values v of metric in items with v < value
BelowStrict(items, metric, value) ==
  Cardinality({k \in 1..Len(items) :
                 metric \in DOMAIN items[k] /\ items[k][metric] < value})

\* the number of values v of metric in items with v >= value
AtLeast(items, metric, value) ==
  Cardinality({k \in 1..Len(items) :
                 metric \in DOMAIN items[k] /\ items[k][metric] >= value})

\* the number of values v of metric in items with v <= value
Below(items, metric, value) ==
  Cardinality({k \in 1..Len(items) :
                 metric \in DOMAIN items[k] /\ items[k][metric] <= value})

\* pct_of(metric, value), in tenths of a percent
pct_of(items, metric, value) ==
  LET n == Cardinality({k \in 1..Len(items) : metric \in DOMAIN items[k]})
  IN  IF n = 0 THEN NoPct
      ELSE RoundHalfEven(1000 * Below(items, metric, value), n)

\* what compute_benchmarks(p, current) returns once the history is h
BenchResult(h, current) ==
  LET k == DictGet(current, "kpis", EmptyDict)
  IN  [percentiles |-> [m \in Metrics |->
                          pct_of(Items(h), m, DictGet(k, m, 0))],
       count_history |-> Len(Items(h))]

\* the kpis of the comment tables the model ranks
SampleTables ==
  {RawTable({}, idx) : idx \in {<<>>, <<1>>, <<2>>, <<1, 2>>, <<1, 3, 4>>}}

\* the bundles compute_benchmarks is called with: those of the sample
\* tables and one whose kpis lack three of the metrics
Currents ==
  {BundleData(t) : t \in SampleTables}
  \cup {[kpis |-> [m \in {"total_comments"} |-> 1]]}

\* the entry an earlier run left for post k: no kpis for every fifth post
OldEntry(k) ==
  [id |-> k, ts |-> 0,
   kpis |-> IF k % 5 = 0 THEN EmptyDict
            ELSE DictGet(BundleData(RawTable({}, <<(k % 3) + 1, (k % 2) + 1>>)),
                         "kpis", EmptyDict)]

OldHistory(n) == [k \in 1..n |-> OldEntry(k)]

\* the post ids of the calls: the oldest post of the file and a new one
CallPosts == {1, OldPosts + 1}

NoBench == [post |-> 0, current |-> EmptyDict,
            result |-> BenchResult(<<>>, EmptyDict)]

IdleHist ==
  /\ hist = <<>>
  /\ hist_ok = TRUE
  /\ now = 0
  /\ lastCall = EmptyDict
  /\ bench = NoBench

\* the history file is missing or is what earlier runs left
InitHist ==
  /\ hist \in {OldHistory(0), OldHistory(OldPosts)}
  /\ hist_ok = TRUE
  /\ now = 0
  /\ lastCall = [k \in 1..Len(hist) |-> hist[k].kpis]
  /\ bench = NoBench

Tick ==
  /\ now < MaxTime
  /\ now' = now + 1
  /\ UNCHANGED <<hist, hist_ok, lastCall, bench, notHist>>

\* compute_benchmarks(p, current): load, put, save, rank
ComputeBenchmarks(p, current) ==
  LET kp   == DictGet(current, "kpis", EmptyDict)
      snap == [id |-> p, ts |-> now, kpis |-> kp]
      h    == HistPut(HistoryLoad, p, snap)
  IN  /\ hist' = h
      /\ hist_ok' = TRUE
      /\ lastCall' = [q \in DOMAIN lastCall \cup {p} |->
                        IF q = p THEN kp ELSE lastCall[q]]
      /\ bench' = [post |-> p, current |-> current,
                   result |-> BenchResult(h, current)]
      /\ UNCHANGED <<now, notHist>>

NextHist ==
  \/ Tick
  \/ \E p \in CallPosts, current \in Currents : ComputeBenchmarks(p, current)

\* the history file as a crash or another program may leave it: present,
\* and no longer JSON
InitFile ==
  /\ hist \in {OldHistory(0), OldHistory(OldPosts)}
  /\ hist_ok \in BOOLEAN
  /\ now = 0
  /\ lastCall = [k \in 1..Len(hist) |-> hist[k].kpis]
  /\ bench = NoBench

\* the file is damaged between two calls
Garble ==
  /\ hist_ok
  /\ hist_ok' = FALSE
  /\ UNCHANGED <<hist, now, lastCall, bench, notHist>>

NextFile ==
  \/ Tick
  \/ Garble
  \/ \E p \in CallPosts, current \in Currents : ComputeBenchmarks(p, current)

(***************************************************************************)
(* ensure_engagement_columns as a function on a table object: it assigns   *)
(* the columns to the object it is given and returns that object.          *)
(***************************************************************************)
IdleNorm ==
  /\ norm_how = "off"
  /\ norm_df = NoTable
  /\ norm_prev = NoTable
  /\ norm_arg = NoTable
  /\ norm_ret = NoTable

InitNorm ==
  /\ norm_how = "new"
  /\ norm_df \in RawTables
  /\ norm_prev = NoTable
  /\ norm_arg = NoTable
  /\ norm_ret = NoTable

\* ensure_engagement_columns(df) returning a new table, df left as it was
NormDirectPure ==
  /\ norm_how = "new"
  /\ norm_how' = "direct"
  /\ norm_prev' = norm_df
  /\ norm_df' = norm_df
  /\ norm_arg' = norm_df
  /\ norm_ret' = ensure_engagement_columns(norm_df)
  /\ UNCHANGED notNorm

\* ensure_engagement_columns(df): the caller's table is the object assigned to
NormDirect ==
  /\ norm_how = "new"
  /\ norm_how' = "direct"
  /\ norm_prev' = norm_df
  /\ norm_df' = ensure_engagement_columns(norm_df)
  /\ norm_arg' = ensure_engagement_columns(norm_df)
  /\ norm_ret' = ensure_engagement_columns(norm_df)
  /\ UNCHANGED notNorm

\* ensure_engagement_columns(df.copy()), as _get_post_bundle, api_analyze and
\* export_comments_csv call it: the copy is the object assigned to
NormCopy ==
  /\ norm_how = "new"
  /\ norm_how' = "copy"
  /\ norm_prev' = norm_df
  /\ norm_df' = norm_df
  /\ norm_arg' = ensure_engagement_columns(norm_df)
  /\ norm_ret' = ensure_engagement_columns(norm_df)
  /\ UNCHANGED notNorm

\* ensure_engagement_columns(df) once more on the table a direct call left
NormAgain ==
  /\ norm_how = "direct"
  /\ norm_how' = "again"
  /\ norm_prev' = norm_df
  /\ norm_df' = ensure_engagement_columns(norm_df)
  /\ norm_arg' = ensure_engagement_columns(norm_df)
  /\ norm_ret' = ensure_engagement_columns(norm_df)
  /\ UNCHANGED notNorm

NextNorm ==
  \/ NormDirect
  \/ NormCopy
  \/ NormAgain

(***************************************************************************)
(* compute_insights on tables of many labels, and on empty tables          *)
(***************************************************************************)
MaxInsRows == 9    \* the longest table given to compute_insights

\* labels of the emotion model, more of them than head(7) keeps
EmoNames == <<"joy", "anger", "neutral", "love", "fear", "pride", "grief",
              "relief">>

\* language codes as the fetch gives them
LangCodes == <<"en", "bn", "", "EN", "hi", "fr", "ar", "es">>

\* labels of a sentiment model with another vocabulary
OtherSentiments == <<"pos", "label_0", "negative", "positive">>

\* which label row k gets when ne labels are used: in turn, or one row for
\* each label but the last, which gets all the other rows
LabelIdx(k, ne, shape) ==
  IF shape = "turn" THEN ((k - 1) % ne) + 1 ELSE Min(k, ne)

\* hours between one comment and the next; 0 leaves the stamps of BaseRows
Strides == {0, 12, 48}

\* a fetched and labelled table of n comments
InsRaw(n, ne, shape, vocab, stride) ==
  [cols |-> RawCols,
   rows |-> [k \in 1..n |->
              [BaseRows[((k - 1) % Len(BaseRows)) + 1] EXCEPT
                 !["created_time"] =
                    IF stride = 0 THEN @ ELSE 100 + stride * (k - 1),
                 !["emotion"] = EmoNames[LabelIdx(k, ne, shape)],
                 !["language"] = LangCodes[LabelIdx(k, ne, shape)],
                 !["sentiment"] =
                    IF vocab = "model" THEN @
                    ELSE OtherSentiments[((k - 1) % Len(OtherSentiments)) + 1]]]]

InsRaws ==
  {NoTable} \cup
  {InsRaw(n, ne, shape, vocab, stride) :
     n \in 0..MaxInsRows, ne \in 1..Len(EmoNames),
     shape \in {"turn", "tail"}, vocab \in {"model", "other"},
     stride \in Strides}

IdleIns ==
  /\ ins_pc = "off"
  /\ ins_raw = NoTable
  /\ ins_path = "none"
  /\ ins_raised = FALSE
  /\ ins_out = EmptyDict

InitIns ==
  /\ ins_pc = "table"
  /\ ins_raw \in InsRaws
  /\ ins_path = "none"
  /\ ins_raised = FALSE
  /\ ins_out = EmptyDict

\* compute_insights(df) on the table itself, normalized if it has columns
InsDirect ==
  /\ ins_pc = "table"
  /\ ins_pc' = "done"
  /\ ins_path' = "direct"
  /\ LET df == IF ins_raw.cols = {} THEN ins_raw
               ELSE ensure_engagement_columns(ins_raw)
     IN  /\ ins_raised' = InsightsRaises(df)
         /\ ins_out' = IF InsightsRaises(df) THEN EmptyDict
                       ELSE compute_insights(df)
  /\ UNCHANGED <<ins_raw, notIns>>

\* _get_post_bundle / api_analyze: {} for an empty table, compute_insights
\* for the others
InsBundle ==
  /\ ins_pc = "table"
  /\ ins_pc' = "done"
  /\ ins_path' = "bundle"
  /\ ins_raised' = (~IsEmpty(ins_raw) /\ InsightsRaises(BundleTable(ins_raw)))
  /\ ins_out' = IF ~IsEmpty(ins_raw) /\ InsightsRaises(BundleTable(ins_raw))
                  THEN EmptyDict ELSE BundleData(ins_raw)
  /\ UNCHANGED <<ins_raw, notIns>>

NextIns ==
  \/ InsDirect
  \/ InsBundle

(***************************************************************************)
(* _time_analytics.  The tables of this part hold their created_time in    *)
(* whole minutes; the cells of the contagion matrix are in hundredths.     *)
(***************************************************************************)
\* the elements of a set of integers, the least first
RECURSIVE Ascending(_)
Ascending(S) ==
  IF S = {} THEN <<>>
  ELSE <<SetMin(S)>> \o Ascending(S \ {SetMin(S)})

\* the rows of df that have a valid timestamp
TimedRows(df) == SelectSeq(df.rows, LAMBDA r : IsTime(parse_dt(r["created_time"])))

\* the valid timestamps of df
TimesOf(df) ==
  LET rows == TimedRows(df)
  IN  {rows[k]["created_time"] : k \in 1..Len(rows)}

QuarterSpan == 360    \* _time_bin: span_hours <= 6, in minutes

\* the width in minutes of the bucket _time_bin chooses for df
BinWidth(df) ==
  LET ts == TimesOf(df)
  IN  IF ts = {} \/ SetMax(ts) - SetMin(ts) <= QuarterSpan THEN 15 ELSE 60

\* the bucket of timestamp t
BinOf(df, t) == t \div BinWidth(df)

\* how many rows of df with a valid timestamp are in bucket b and pass keep
CountInBin(df, b, keep(_)) ==
  LET rows  == TimedRows(df)
      width == BinWidth(df)
  IN  Cardinality({k \in 1..Len(rows) :
                     /\ rows[k]["created_time"] \div width = b
                     /\ keep(rows[k])})

\* tl_values: comments per bucket, from the first bucket that has one to the
\* last, the buckets without any included
TimelineValues(df) ==
  IF TimesOf(df) = {} THEN <<>>
  ELSE LET ts    == TimesOf(df)
           first == BinOf(df, SetMin(ts))
           last  == BinOf(df, SetMax(ts))
       IN  [i \in 1..(last - first + 1) |->
              CountInBin(df, first + i - 1, LAMBDA r : TRUE)]

\* emo.index: the buckets that have a comment
EmoBins(df) ==
  LET width == BinWidth(df)
  IN  Ascending({t \div width : t \in TimesOf(df)})

\* emo_total: the emotions tracked (head(5) keeps every label of a table
\* with at most five)
TrackedEmotions(df) == {df.rows[k]["emotion"] : k \in 1..Len(df.rows)}

\* emo[c]: the count of emotion c in each bucket of emo.index
EmoSeries(df, c) ==
  LET bins == EmoBins(df)
  IN  [i \in 1..Len(bins) |->
         CountInBin(df, bins[i], LAMBDA r : r["emotion"] = c)]

\* z >= 2.0 at position i of series s if the mean and the sample standard
\* deviation were those of the two buckets before i: with m = (a + b) / 2
\* and sd^2 = (a - b)^2 / 2 this is a # b, 2c >= a + b and
\* (2c - a - b)^2 >= 8 * (a - b)^2
ZLeaveOneOut(s, i) ==
  LET a == s[i - 2]
      b == s[i - 1]
      c == s[i]
  IN  /\ a # b
      /\ 2 * c >= a + b
      /\ (2 * c - a - b) * (2 * c - a - b) >= 8 * (a - b) * (a - b)

\* z >= 2.0 at position i of series s, where z = (s - mu) / sd with the mean
\* and the sample standard deviation of s[i-2..i], and is dropped when sd = 0:
\* with d = 3*(s[i] - mu) and q = 18 * sd^2 this is q > 0, d >= 0, d^2 >= 2q
ZAtLeastTwo(s, i) ==
  LET sum == s[i - 2] + s[i - 1] + s[i]
      d   == 3 * s[i] - sum
      q   == (3 * s[i - 2] - sum) * (3 * s[i - 2] - sum)
             + (3 * s[i - 1] - sum) * (3 * s[i - 1] - sum)
             + d * d
  IN  q > 0 /\ d >= 0 /\ d * d >= 2 * q

\* spikes: the points with z >= 2.0 and a count of at least 2 (the code
\* keeps the 8 of the greatest z)
Spikes(df) ==
  LET emo == [c \in TrackedEmotions(df) |-> EmoSeries(df, c)]
  IN  {p \in {[emotion |-> c, at |-> i, value |-> emo[c][i]] :
                c \in TrackedEmotions(df), i \in 3..Len(EmoBins(df))} :
         /\ ZAtLeastTwo(emo[p.emotion], p.at)
         /\ p.value >= 2}

\* np.polyfit on the tail from the peak bucket: with at least four buckets
\* and the peak in the last one the fit has a single point, its scaled
\* matrix holds 0/0 and lstsq raises LinAlgError or not, by the build
FitOnePoint(df) ==
  LET y == TimelineValues(df)
  IN  /\ Len(y) >= 4
      /\ \A k \in 1..(Len(y) - 1) : y[k] < y[Len(y)]

\* labmap: the class of a sentiment label
SentClass(l) ==
  IF l \in {"positive", "pos"} THEN "positive"
  ELSE IF l \in {"negative", "neg"} THEN "negative"
  ELSE "neutral"

ContagionLabels == <<"positive", "neutral", "negative">>

HalfHour == 30     \* 1800 seconds, in minutes

\* d2 = df.sort_values('_ts'): the rows with a valid timestamp by time (the
\* NaT rows come after them and take part in no transition)
RECURSIVE ByTime(_)
ByTime(rows) ==
  IF rows = <<>> THEN <<>>
  ELSE LET k == CHOOSE i \in 1..Len(rows) :
                  \A j \in 1..Len(rows) :
                    rows[i]["created_time"] <= rows[j]["created_time"]
       IN  <<rows[k]>> \o
           ByTime([j \in 1..(Len(rows) - 1) |->
                     IF j < k THEN rows[j] ELSE rows[j + 1]])

\* trans[(a, b)] if a gap of exactly 1800 seconds did not count
TransStrict(df, a, b) ==
  LET d2 == ByTime(TimedRows(df))
  IN  Cardinality({k \in 2..Len(d2) :
        /\ d2[k]["created_time"] - d2[k - 1]["created_time"] < HalfHour
        /\ SentClass(d2[k - 1]["sentiment"]) = a
        /\ SentClass(d2[k]["sentiment"]) = b})

\* trans[(a, b)]
Trans(df, a, b) ==
  LET d2 == ByTime(TimedRows(df))
  IN  Cardinality({k \in 2..Len(d2) :
        /\ d2[k]["created_time"] - d2[k - 1]["created_time"] <= HalfHour
        /\ SentClass(d2[k - 1]["sentiment"]) = a
        /\ SentClass(d2[k]["sentiment"]) = b})

\* row_total with one added to the sum in every row
RowTotalSmoothed(df, a) ==
  Trans(df, a, "positive") + Trans(df, a, "neutral")
    + Trans(df, a, "negative") + 1

\* row_total = sum(...) or 1
RowTotal(df, a) ==
  LET t == Trans(df, a, "positive") + Trans(df, a, "neutral")
           + Trans(df, a, "negative")
  IN  IF t = 0 THEN 1 ELSE t

\* base_counts[b]: the rows of class b, the NaT rows among them
BaseCount(df, b) ==
  Cardinality({k \in 1..Len(df.rows) : SentClass(df.rows[k]["sentiment"]) = b})

\* round(p_next / base, 2), in hundredths; base is 1e-9 for a class without
\* rows, which no transition leads to
Lift(df, a, b) ==
  IF BaseCount(df, b) = 0 THEN 0
  ELSE RoundHalfEven(100 * Trans(df, a, b) * Len(df.rows),
                     RowTotal(df, a) * BaseCount(df, b))

ContagionMatrix(df) ==
  [i \in 1..3 |-> [j \in 1..3 |->
     Lift(df, ContagionLabels[i], ContagionLabels[j])]]

NoHours == -1      \* half = None, t10 = None

\* the width of a bucket in hundredths of an hour: 0.25 if
\* _time_bin(span_hours) == '15min' else 1.0
BinHours(df) == IF BinWidth(df) = 15 THEN 25 ELSE 100

\* the first index, from 0, at which the running sum of y is above
\* num / den
FirstAbove(y, num, den) ==
  SetMin({i \in 0..(Len(y) - 1) : den * SumSeq(SubSeq(y, 1, i + 1)) > num}
         \cup {Len(y)})

\* np.argmax(cum >= num / den): the first index, from 0, at which the
\* running sum of y reaches num / den (0 if it never does)
FirstReach(y, num, den) ==
  LET reached == {i \in 0..(Len(y) - 1) :
                    den * SumSeq(SubSeq(y, 1, i + 1)) >= num}
  IN  IF reached = {} THEN 0 ELSE SetMin(reached)

\* half: None unless cum[-1] > 0, else the bucket at which the running
\* count reaches 0.5 * cum[-1], in hundredths of an hour
HalfLifeHours(df) ==
  LET y == TimelineValues(df)
  IN  IF Len(y) = 0 \/ SumSeq(y) <= 0 THEN NoHours
      ELSE FirstReach(y, SumSeq(y), 2) * BinHours(df)

\* t10: None unless cum[-1] >= 10, else the bucket at which the running
\* count reaches 10, in hundredths of an hour
FirstTenHours(df) ==
  LET y == TimelineValues(df)
  IN  IF Len(y) = 0 \/ SumSeq(y) < 10 THEN NoHours
      ELSE FirstReach(y, 10, 1) * BinHours(df)

\* what _time_analytics returns for an empty table or one without the
\* created_time column
EmptyAnalytics ==
  [timeline |-> <<>>, emotion_stack |-> EmptyDict, spikes |-> {},
   half_life_hours |-> NoHours, t_first10_hours |-> NoHours,
   trans |-> <<>>, labels |-> <<>>, matrix |-> <<>>]

\* the outcomes of _time_analytics(df): whether it raises.  A NaT among the
\* timestamps makes astype(int) raise at line 606 (and cum[-1] raise at
\* line 574 when no timestamp is valid).
TimeAnalyticsRaises(df) ==
  IF IsEmpty(df) \/ "created_time" \notin df.cols THEN {FALSE}
  ELSE IF \E k \in 1..Len(df.rows) : ~IsTime(parse_dt(df.rows[k]["created_time"]))
    THEN {TRUE}
  ELSE IF FitOnePoint(df) THEN {TRUE, FALSE}
  ELSE {FALSE}

\* _time_analytics(df) when it returns
TimeAnalytics(df) ==
  IF IsEmpty(df) \/ "created_time" \notin df.cols THEN EmptyAnalytics
  ELSE [timeline |-> TimelineValues(df),
        emotion_stack |-> [c \in TrackedEmotions(df) |-> EmoSeries(df, c)],
        spikes |-> Spikes(df),
        half_life_hours |-> HalfLifeHours(df),
        t_first10_hours |-> FirstTenHours(df),
        trans |-> [i \in 1..3 |-> [j \in 1..3 |->
                     Trans(df, ContagionLabels[i], ContagionLabels[j])]],
        labels |-> ContagionLabels,
        matrix |-> ContagionMatrix(df)]

MaxBuckets == 6    \* the most buckets of a generated series
MaxChain == 3      \* the most comments of a generated chain

TimeCols == {"created_time", "sentiment", "emotion"}

\* the timestamp of the first generated comment
Epoch == 600

\* the comments of one emotion in groups of the sizes counts, the groups
\* step minutes apart
SpacedTable(counts, step) ==
  LET n == SumSeq(counts)
      bucket(k) == CHOOSE b \in 1..Len(counts) :
                     /\ SumSeq(SubSeq(counts, 1, b - 1)) < k
                     /\ k <= SumSeq(SubSeq(counts, 1, b))
  IN  [cols |-> TimeCols,
       rows |-> [k \in 1..n |->
          [created_time |-> Epoch + step * (bucket(k) - 1)
                             + (k - SumSeq(SubSeq(counts, 1, bucket(k) - 1)) - 1),
           sentiment |-> "positive", emotion |-> "joy"]]]

\* the comments of one emotion whose counts per 15-minute bucket are counts
SeriesTable(counts) == SpacedTable(counts, 15)

\* minutes from one group of comments to the next
Steps == {15, 120}

SeriesShapes ==
  {[k \in 1..n |-> IF k = n THEN top ELSE base] :
     n \in 3..MaxBuckets, base \in {1, 2}, top \in {1, 2, 10}}

\* comments with the sentiments sents, gap minutes apart (the latest first
\* if gap is negative), the last of them with an unparseable timestamp if
\* bad
ChainTable(sents, gap, bad) ==
  [cols |-> TimeCols,
   rows |-> [k \in 1..Len(sents) |->
      [created_time |-> IF bad /\ k = Len(sents) /\ k > 1 THEN NaT
                        ELSE IF gap < 0 THEN Epoch - gap * (Len(sents) - k)
                        ELSE Epoch + gap * (k - 1),
       sentiment |-> sents[k],
       emotion |-> IF k % 2 = 1 THEN "joy" ELSE "anger"]]]

MaxProbe == 4      \* the most buckets of a probe series

\* one joy comment in each of Len(counts) buckets of 15 minutes, and
\* counts[b] anger comments in bucket b
RECURSIVE ProbeRows(_, _)
ProbeRows(counts, b) ==
  IF b > Len(counts) THEN <<>>
  ELSE <<[created_time |-> Epoch + 15 * (b - 1), sentiment |-> "positive",
          emotion |-> "joy"]>>
       \o [k \in 1..counts[b] |->
             [created_time |-> Epoch + 15 * (b - 1) + k,
              sentiment |-> "negative", emotion |-> "anger"]]
       \o ProbeRows(counts, b + 1)

ProbeTable(counts) == [cols |-> TimeCols, rows |-> ProbeRows(counts, 1)]

\* the anger counts of the probe tables: none, one, many
ProbeCounts == {0, 1, 4}

ChainSentiments == {"positive", "neutral", "negative", "pos"}

Gaps == {1, 30, 31, 400, -30}

TimeTables ==
  {NoTable, [cols |-> TimeCols \ {"created_time"},
             rows |-> <<[sentiment |-> "positive", emotion |-> "joy"]>>]}
  \cup {SpacedTable(c, step) : c \in SeriesShapes, step \in Steps}
  \cup {ProbeTable(c) : c \in UNION {[1..n -> ProbeCounts] : n \in 3..MaxProbe}}
  \cup {ChainTable(sents, gap, bad) :
          sents \in UNION {[1..m -> ChainSentiments] : m \in 1..MaxChain},
          gap \in Gaps, bad \in BOOLEAN}

IdleTa ==
  /\ ta_pc = "off"
  /\ ta_df = NoTable
  /\ ta_raised = FALSE
  /\ ta_out = EmptyAnalytics

InitTa ==
  /\ ta_pc = "table"
  /\ ta_df \in TimeTables
  /\ ta_raised = FALSE
  /\ ta_out = EmptyAnalytics

\* _time_analytics(df)
TimeAnalyticsCall ==
  /\ ta_pc = "table"
  /\ ta_pc' = "done"
  /\ \E r \in TimeAnalyticsRaises(ta_df) :
       /\ ta_raised' = r
       /\ ta_out' = IF r THEN EmptyAnalytics ELSE TimeAnalytics(ta_df)
  /\ UNCHANGED <<ta_df, notTa>>

NextTa == TimeAnalyticsCall

(***************************************************************************)
(* compute_benchmarks in concurrent requests: the Flask server runs each   *)
(* request in a thread of its own, so one call can load the file between   *)
(* the load and the save of another.                                       *)
(***************************************************************************)
Threads == {1, 2}

ConcCurrents ==
  {BundleData(t) : t \in {RawTable({}, <<1>>), RawTable({}, <<1, 2>>)}}

IdleConc ==
  /\ th_pc = [t \in Threads |-> "idle"]
  /\ th_post = [t \in Threads |-> 0]
  /\ th_hist = [t \in Threads |-> <<>>]

InitConc ==
  /\ IdleConc
  /\ hist = <<>>
  /\ hist_ok = TRUE
  /\ now = 0
  /\ lastCall = EmptyDict
  /\ bench = NoBench

\* lines 363-364: hist = _history_load(); hist[post_id] = {...}
ConcLoad(t, p, current) ==
  /\ th_pc[t] = "idle"
  /\ th_pc' = [th_pc EXCEPT ![t] = "loaded"]
  /\ th_post' = [th_post EXCEPT ![t] = p]
  /\ th_hist' = [th_hist EXCEPT ![t] =
        HistPut(HistoryLoad, p, [id |-> p, ts |-> now,
                                 kpis |-> DictGet(current, "kpis", EmptyDict)])]
  /\ UNCHANGED <<histVars, notConc>>

\* lines 365-374: _history_save(hist) and the ranking, on the local hist
ConcSave(t) ==
  /\ th_pc[t] = "loaded"
  /\ hist' = th_hist[t]
  /\ hist_ok' = TRUE
  /\ LET snap == th_hist[t][PosOf(th_hist[t], th_post[t])]
     IN  /\ lastCall' = [q \in DOMAIN lastCall \cup {th_post[t]} |->
                           IF q = th_post[t] THEN snap.kpis ELSE lastCall[q]]
         /\ bench' = [post |-> th_post[t], current |-> [kpis |-> snap.kpis],
                      result |-> BenchResult(th_hist[t], [kpis |-> snap.kpis])]
  /\ th_pc' = [th_pc EXCEPT ![t] = "idle"]
  /\ th_post' = [th_post EXCEPT ![t] = 0]
  /\ th_hist' = [th_hist EXCEPT ![t] = <<>>]
  /\ UNCHANGED <<now, notConc>>

NextConc ==
  \/ \E t \in Threads, p \in CallPosts, current \in ConcCurrents :
       ConcLoad(t, p, current)
  \/ \E t \in Threads : ConcSave(t)

(***************************************************************************)
(* The request handlers and _POST_CACHE                                    *)
(***************************************************************************)
MaxThread == 1     \* the most comments a post gets

\* which of the base comments the i-th comment of post p is
CommentIdx(p, i) == (((p % 3) + i) % Len(BaseRows)) + 1

\* fetch_comments(token, p) when post p has n comments
PostTable(p, n) == RawTable({}, [i \in 1..n |-> CommentIdx(p, i)])

VALID_VIEWS == {"overview", "deep", "top_comments", "content_intel",
                "safety", "benchmark", "quality", "story", "planner"}

\* the views asked of analyze_view: the default one, the panels that get
\* the cached table, the benchmark, and a name that is no view
Views == {"overview", "top_comments", "content_intel", "safety", "benchmark",
          "nosuchview"}

\* the windows asked of api_analyze_window
ReqWindows ==
  {NoArgs, [start |-> 130, end |-> Absent, rng |-> NoRange]}

\* the access tokens a session may hold
Tokens == {"A", "B"}

\* the Graph API lets the token read the comments of post p: token A reads
\* every post, token B every post but the first
Allowed(tok, p) == tok = "A" \/ p # 1

\* how many comments fetch_comments(tok, p) returns: for a token the API
\* refuses, the answer holds no "data" and the table is empty
Visible(tok, p) == IF Allowed(tok, p) THEN remote[p] ELSE 0

\* fetch_comments(tok, p)
FetchComments(tok, p) == PostTable(p, Visible(tok, p))

\* the bundle (df, data, rows) _get_post_bundle builds for a fetched table;
\* at is the number of comments the fetch returned
Bundle(p, n) ==
  [df |-> BundleTable(PostTable(p, n)), data |-> BundleData(PostTable(p, n)),
   at |-> n]

NoBundle == [df |-> NoTable, data |-> EmptyDict, at |-> 0]

NoResp == [handler |-> "none", token |-> None, post |-> 0, view |-> "",
           args |-> NoArgs, fetched |-> FALSE, avail |-> 0,
           bundle |-> NoBundle, data |-> EmptyDict]

IdleReq ==
  /\ remote = [p \in CallPosts |-> 0]
  /\ cache = EmptyDict
  /\ owner = EmptyDict
  /\ resp = NoResp

InitReq ==
  /\ IdleReq
  /\ hist = <<>>
  /\ hist_ok = TRUE
  /\ now = 0
  /\ lastCall = EmptyDict
  /\ bench = NoBench

\* someone comments on post p
NewComment(p) ==
  /\ remote[p] < MaxThread
  /\ remote' = [remote EXCEPT ![p] = @ + 1]
  /\ UNCHANGED <<cache, owner, resp, histVars, notReq>>

\* post_id in _POST_CACHE, with the test always failing
CacheHitNever(p) == FALSE

\* post_id in _POST_CACHE
CacheHit(p) == p \in DOMAIN cache

\* _get_post_bundle with a cache that a token other than the one that
\* fetched does not hit
GetPostBundlePerToken(tok, p) ==
  IF CacheHit(p) /\ owner[p] = tok THEN cache[p]
  ELSE Bundle(p, Visible(tok, p))

\* what _get_post_bundle(tok, p) returns
GetPostBundle(tok, p) ==
  IF CacheHit(p) THEN cache[p] ELSE Bundle(p, Visible(tok, p))

\* _POST_CACHE after _get_post_bundle(tok, p)
CacheAfter(tok, p) ==
  IF CacheHit(p) THEN cache
  ELSE [q \in DOMAIN cache \cup {p} |->
          IF q = p THEN GetPostBundle(tok, p) ELSE cache[q]]

\* the token whose fetch filled each entry of _POST_CACHE, after
\* _get_post_bundle(tok, p)
OwnerAfter(tok, p) ==
  IF CacheHit(p) THEN owner
  ELSE [q \in DOMAIN owner \cup {p} |-> IF q = p THEN tok ELSE owner[q]]

\* df.assign(_ts=dt): a new table, df with the column _ts added
AssignTs(df) == SetColumn(df, "_ts", LAMBDA r : parse_dt(r["created_time"]))

\* _time_analytics with df['_ts'] = dt in place of df = df.assign(_ts=dt)
TimeAnalyticsInPlace(df) ==
  IF IsEmpty(df) \/ "created_time" \notin df.cols
    THEN [arg |-> df, local |-> df]
    ELSE [arg |-> AssignTs(df), local |-> AssignTs(df)]

\* the tables of _time_analytics(df) after df = df.assign(_ts=dt): arg is
\* the table the caller passed, local the one the function goes on with
\* (df2 and its columns are made from local)
TimeAnalyticsTables(df) ==
  IF IsEmpty(df) \/ "created_time" \notin df.cols
    THEN [arg |-> df, local |-> df]
    ELSE [arg |-> df, local |-> AssignTs(df)]

\* analyze_view(p, view) for a view that is not valid: a redirect
AnalyzeBadView(p, view) ==
  /\ view \notin VALID_VIEWS
  /\ resp' = [NoResp EXCEPT !.handler = "redirect", !.post = p, !.view = view]
  /\ UNCHANGED <<remote, cache, owner, histVars, notReq>>

\* the routes that ask the session for its token
TokenRoutes ==
  {"analyze_view", "api_analyze", "api_analyze_window", "export_comments_csv"}

\* a request of a session without access_token: analyze_view redirects to
\* the login, the APIs answer 400, the export answers 401
NoToken(route, p) ==
  /\ resp' = [NoResp EXCEPT !.handler = "no_token", !.post = p,
                            !.view = route]
  /\ UNCHANGED <<remote, cache, owner, histVars, notReq>>

\* analyze_view with compute_benchmarks called for every view
AnalyzeViewRecording(tok, p, view) ==
  /\ view \in VALID_VIEWS \ {"benchmark", "top_comments"}
  /\ cache' = [CacheAfter(tok, p) EXCEPT
                 ![p].df = TimeAnalyticsTables(@).arg]
  /\ owner' = OwnerAfter(tok, p)
  /\ resp' = [handler |-> "analyze_view", token |-> tok, post |-> p,
               view |-> view, args |-> NoArgs, fetched |-> ~CacheHit(p),
               avail |-> Visible(tok, p), bundle |-> GetPostBundle(tok, p),
               data |-> GetPostBundle(tok, p).data]
  /\ LET kp == DictGet(GetPostBundle(tok, p).data, "kpis", EmptyDict)
         h  == HistPut(HistoryLoad, p, [id |-> p, ts |-> now, kpis |-> kp])
     IN  /\ hist' = h
         /\ hist_ok' = TRUE
         /\ lastCall' = [q \in DOMAIN lastCall \cup {p} |->
                           IF q = p THEN kp ELSE lastCall[q]]
         /\ bench' = [post |-> p, current |-> GetPostBundle(tok, p).data,
                      result |-> BenchResult(h, GetPostBundle(tok, p).data)]
  /\ UNCHANGED <<remote, now, notReq>>

\* analyze_view(p, view) for the views that only read the bundle:
\* compute_content_intel, compute_safety_panel, compute_quality and
\* build_highlights assign to no column of df; _time_analytics(df) runs for
\* every view
AnalyzeView(tok, p, view) ==
  /\ view \in VALID_VIEWS \ {"benchmark", "top_comments"}
  /\ cache' = [CacheAfter(tok, p) EXCEPT
                 ![p].df = TimeAnalyticsTables(@).arg]
  /\ owner' = OwnerAfter(tok, p)
  /\ resp' = [handler |-> "analyze_view", token |-> tok, post |-> p,
               view |-> view, args |-> NoArgs, fetched |-> ~CacheHit(p),
               avail |-> Visible(tok, p), bundle |-> GetPostBundle(tok, p),
               data |-> GetPostBundle(tok, p).data]
  /\ UNCHANGED <<remote, histVars, notReq>>

\* analyze_view(p, "top_comments"): compute_top_comments_panel gets the
\* table of the cached bundle itself
AnalyzeTopComments(tok, p) ==
  /\ cache' = [CacheAfter(tok, p) EXCEPT
                 ![p].df = TimeAnalyticsTables(TopCommentsBaseCols(@)).arg]
  /\ owner' = OwnerAfter(tok, p)
  /\ resp' = [handler |-> "analyze_view", token |-> tok, post |-> p,
               view |-> "top_comments", args |-> NoArgs,
               fetched |-> ~CacheHit(p), avail |-> Visible(tok, p),
               bundle |-> GetPostBundle(tok, p),
               data |-> GetPostBundle(tok, p).data]
  /\ UNCHANGED <<remote, histVars, notReq>>

\* analyze_view(p, "benchmark"): compute_benchmarks(p, data)
AnalyzeBenchmark(tok, p) ==
  LET b    == GetPostBundle(tok, p)
      kp   == DictGet(b.data, "kpis", EmptyDict)
      h    == HistPut(HistoryLoad, p, [id |-> p, ts |-> now, kpis |-> kp])
  IN  /\ cache' = [CacheAfter(tok, p) EXCEPT
                     ![p].df = TimeAnalyticsTables(@).arg]
      /\ owner' = OwnerAfter(tok, p)
      /\ hist' = h
      /\ hist_ok' = TRUE
      /\ lastCall' = [q \in DOMAIN lastCall \cup {p} |->
                        IF q = p THEN kp ELSE lastCall[q]]
      /\ bench' = [post |-> p, current |-> b.data,
                   result |-> BenchResult(h, b.data)]
      /\ resp' = [handler |-> "analyze_view", token |-> tok, post |-> p,
                   view |-> "benchmark", args |-> NoArgs,
                   fetched |-> ~CacheHit(p), avail |-> Visible(tok, p),
                   bundle |-> b, data |-> b.data]
      /\ UNCHANGED <<remote, now, notReq>>

\* api_analyze with the cached bundle in place of a fetch
ApiAnalyzeCached(tok, p) ==
  /\ cache' = CacheAfter(tok, p)
  /\ owner' = OwnerAfter(tok, p)
  /\ resp' = [handler |-> "api_analyze", token |-> tok, post |-> p,
               view |-> "", args |-> NoArgs, fetched |-> ~CacheHit(p),
               avail |-> Visible(tok, p), bundle |-> NoBundle,
               data |-> GetPostBundle(tok, p).data]
  /\ UNCHANGED <<remote, histVars, notReq>>

\* api_analyze: fetches and computes, the cache is not used
ApiAnalyze(tok, p) ==
  /\ resp' = [handler |-> "api_analyze", token |-> tok, post |-> p,
               view |-> "", args |-> NoArgs, fetched |-> TRUE,
               avail |-> Visible(tok, p), bundle |-> NoBundle,
               data |-> BundleData(FetchComments(tok, p))]
  /\ UNCHANGED <<remote, cache, owner, histVars, notReq>>

\* the "data" of api_analyze_window for the table df of a bundle
WindowData(df, args) ==
  IF IsEmpty(df) THEN EmptyDict
  ELSE LET dfw == ApplyTimeWindow(df, args.start, args.end, args.rng)
       IN  IF IsEmpty(dfw) THEN EmptyDict ELSE compute_insights(dfw)

\* api_analyze_window: _apply_time_window, compute_insights and
\* _time_analytics get a slice of df.copy(), the cached table is only read
ApiAnalyzeWindow(tok, p, args) ==
  /\ cache' = CacheAfter(tok, p)
  /\ owner' = OwnerAfter(tok, p)
  /\ resp' = [handler |-> "api_analyze_window", token |-> tok, post |-> p,
               view |-> "", args |-> args, fetched |-> ~CacheHit(p),
               avail |-> Visible(tok, p), bundle |-> GetPostBundle(tok, p),
               data |-> WindowData(GetPostBundle(tok, p).df, args)]
  /\ UNCHANGED <<remote, histVars, notReq>>

\* export_comments_csv: fetches, the cache is not used
ExportCsv(tok, p) ==
  /\ resp' = [NoResp EXCEPT !.handler = "export_comments_csv",
                            !.token = tok, !.post = p,
                            !.fetched = TRUE, !.avail = Visible(tok, p)]
  /\ UNCHANGED <<remote, cache, owner, histVars, notReq>>

Next ==
  \/ \E p \in CallPosts : NewComment(p)
  \/ \E p \in CallPosts, view \in Views : AnalyzeBadView(p, view)
  \/ \E route \in TokenRoutes, p \in CallPosts : NoToken(route, p)
  \/ \E tok \in Tokens, p \in CallPosts, view \in Views :
       AnalyzeView(tok, p, view)
  \/ \E tok \in Tokens, p \in CallPosts : AnalyzeTopComments(tok, p)
  \/ \E tok \in Tokens, p \in CallPosts : AnalyzeBenchmark(tok, p)
  \/ \E tok \in Tokens, p \in CallPosts : ApiAnalyze(tok, p)
  \/ \E tok \in Tokens, p \in CallPosts, args \in ReqWindows :
       ApiAnalyzeWindow(tok, p, args)
  \/ \E tok \in Tokens, p \in CallPosts : ExportCsv(tok, p)
  \/ Tick

(***************************************************************************)
(* fetch_comments._get                                                     *)
(***************************************************************************)
MaxTries == 4

\* the status codes _get retries on
TransientStatus == {429, 500, 502, 503, 504}

\* the status codes the model draws responses from
Statuses == TransientStatus \cup {200, 400}

\* time.sleep(2 * (i + 1)), i the loop index of the attempt
BackoffDoubling(i) == 2 * (2 ^ i)
Backoff(i) == 2 * (i + 1)

IdleGet ==
  /\ get_pc = "off"
  /\ get_tries = 0
  /\ get_i = 0
  /\ get_last = None
  /\ get_ret = None
  /\ get_resps = <<>>
  /\ get_slept = <<>>

InitGet ==
  /\ get_pc = "idle"
  /\ get_tries = 0
  /\ get_i = 0
  /\ get_last = None
  /\ get_ret = None
  /\ get_resps = <<>>
  /\ get_slept = <<>>

\* _get(url, params, timeout, tries) is entered; range(0) runs no iteration
\* and the assert on last fails
GetCall(t) ==
  /\ get_pc = "idle"
  /\ get_tries' = t
  /\ get_pc' = IF t = 0 THEN "raised" ELSE "loop"
  /\ UNCHANGED <<get_i, get_last, get_ret, get_resps, get_slept, notGet>>

\* GetAttempt with the exhausted loop raising instead of returning last
GetAttemptRaiseLast(st) ==
  /\ get_pc = "loop"
  /\ get_i < get_tries
  /\ get_resps' = Append(get_resps, st)
  /\ get_last' = st
  /\ IF st \in TransientStatus
       THEN /\ get_slept' = Append(get_slept, Backoff(get_i))
            /\ get_i' = get_i + 1
            /\ get_pc' = IF get_i + 1 < get_tries THEN "loop" ELSE "raised"
            /\ get_ret' = get_ret
       ELSE /\ get_pc' = "done"
            /\ get_ret' = st
            /\ UNCHANGED <<get_slept, get_i>>
  /\ UNCHANGED <<get_tries, notGet>>

\* GetAttempt without the sleep after the last attempt
GetAttemptNoFinalWait(st) ==
  /\ get_pc = "loop"
  /\ get_i < get_tries
  /\ get_resps' = Append(get_resps, st)
  /\ get_last' = st
  /\ IF st \in TransientStatus
       THEN /\ get_i' = get_i + 1
            /\ IF get_i + 1 < get_tries
                 THEN /\ get_slept' = Append(get_slept, Backoff(get_i))
                      /\ get_pc' = "loop" /\ get_ret' = get_ret
                 ELSE /\ get_slept' = get_slept
                      /\ get_pc' = "done" /\ get_ret' = st
       ELSE /\ get_pc' = "done"
            /\ get_ret' = st
            /\ UNCHANGED <<get_slept, get_i>>
  /\ UNCHANGED <<get_tries, notGet>>

\* one iteration of the for loop whose requests.get answers with status st
GetAttempt(st) ==
  /\ get_pc = "loop"
  /\ get_i < get_tries
  /\ get_resps' = Append(get_resps, st)
  /\ get_last' = st
  /\ IF st \in TransientStatus
       THEN /\ get_slept' = Append(get_slept, Backoff(get_i))
            /\ get_i' = get_i + 1
            /\ IF get_i + 1 < get_tries
                 THEN get_pc' = "loop" /\ get_ret' = get_ret
                 ELSE get_pc' = "done" /\ get_ret' = st
       ELSE /\ get_pc' = "done"
            /\ get_ret' = st
            /\ UNCHANGED <<get_slept, get_i>>
  /\ UNCHANGED <<get_tries, notGet>>

\* one iteration of the for loop whose requests.get raises (timeout,
\* connection error): the exception leaves _get
GetRequestRaises ==
  /\ get_pc = "loop"
  /\ get_i < get_tries
  /\ get_pc' = "raised"
  /\ UNCHANGED <<get_tries, get_i, get_last, get_ret, get_resps, get_slept, notGet>>

NextGet ==
  \/ \E t \in 0..MaxTries : GetCall(t)
  \/ \E st \in Statuses : GetAttempt(st)
  \/ GetRequestRaises

(***************************************************************************)
(* tokenize and top_keywords.  A text is a sequence of characters, a token *)
(* a sequence of characters too.                                           *)
(***************************************************************************)
UpperCase == <<"A", "B", "C", "D", "E", "F", "G", "H", "I", "J", "K", "L", "M",
               "N", "O", "P", "Q", "R", "S", "T", "U", "V", "W", "X", "Y", "Z">>
LowerCase == <<"a", "b", "c", "d", "e", "f", "g", "h", "i", "j", "k", "l", "m",
               "n", "o", "p", "q", "r", "s", "t", "u", "v", "w", "x", "y", "z">>
Digits == {"0", "1", "2", "3", "4", "5", "6", "7", "8", "9"}

\* str.lower() for one character
Lower(c) ==
  IF \E i \in 1..Len(UpperCase) : UpperCase[i] = c
    THEN LowerCase[CHOOSE i \in 1..Len(UpperCase) : UpperCase[i] = c]
    ELSE c

\* \w
IsWordChar(c) ==
  \/ \E i \in 1..Len(LowerCase) : c \in {LowerCase[i], UpperCase[i]}
  \/ c \in Digits
  \/ c = "_"

\* the first position from i on that holds a space, or the one after the
\* end of t: where a run of \S that starts at i ends
NonSpaceEnd(t, i) ==
  SetMin({j \in i..(Len(t) + 1) : j = Len(t) + 1 \/ t[j] = " "})

\* where a run of \w that starts at i ends
WordEnd(t, i) ==
  SetMin({j \in i..(Len(t) + 1) : j = Len(t) + 1 \/ ~IsWordChar(t[j])})

\* t holds p at position i
HasAt(t, i, p) ==
  /\ i + Len(p) - 1 <= Len(t)
  /\ SubSeq(t, i, i + Len(p) - 1) = p

\* the prefixes of URL_RE = https?://\S+|www\.\S+ in the order the pattern
\* tries them
UrlPrefixes ==
  << <<"h", "t", "t", "p", "s", ":", "/", "/">>,
     <<"h", "t", "t", "p", ":", "/", "/">>,
     <<"w", "w", "w", ".">> >>

\* the position after the match of URL_RE that starts at i, 0 without one
UrlEnd(t, i) ==
  LET fits == {n \in 1..Len(UrlPrefixes) :
                 /\ HasAt(t, i, UrlPrefixes[n])
                 /\ i + Len(UrlPrefixes[n]) <= Len(t)
                 /\ t[i + Len(UrlPrefixes[n])] # " "}
  IN  IF fits = {} THEN 0
      ELSE NonSpaceEnd(t, i + Len(UrlPrefixes[SetMin(fits)]))

\* URL_RE.sub("", t) from position i on
RECURSIVE StripUrls(_, _)
StripUrls(t, i) ==
  IF i > Len(t) THEN <<>>
  ELSE IF UrlEnd(t, i) > 0 THEN StripUrls(t, UrlEnd(t, i))
  ELSE <<t[i]>> \o StripUrls(t, i + 1)

\* WORD_RE.findall(t) from position i on, WORD_RE = [#@]?\w+
RECURSIVE FindWords(_, _)
FindWords(t, i) ==
  IF i > Len(t) THEN <<>>
  ELSE IF t[i] \in {"#", "@"} /\ i < Len(t) /\ IsWordChar(t[i + 1])
    THEN <<SubSeq(t, i, WordEnd(t, i + 1) - 1)>>
         \o FindWords(t, WordEnd(t, i + 1))
  ELSE IF IsWordChar(t[i])
    THEN <<SubSeq(t, i, WordEnd(t, i) - 1)>> \o FindWords(t, WordEnd(t, i))
  ELSE FindWords(t, i + 1)

\* the English stop words; the words of BN_STOP are written in Bengali
\* letters, which no text of this model holds
EN_STOP ==
  {<<"a">>, <<"a", "n">>, <<"a", "n", "d">>, <<"t", "h", "e">>,
   <<"o", "f">>, <<"t", "o">>, <<"i", "n">>, <<"f", "o", "r">>,
   <<"o", "n">>, <<"a", "t">>, <<"b", "y">>, <<"w", "i", "t", "h">>,
   <<"a", "b", "o", "u", "t">>, <<"b", "e", "t", "w", "e", "e", "n">>,
   <<"i", "n", "t", "o">>, <<"o", "v", "e", "r">>, <<"f", "r", "o", "m">>,
   <<"a", "s">>, <<"i", "s">>, <<"a", "r", "e">>, <<"w", "a", "s">>,
   <<"w", "e", "r", "e">>, <<"b", "e">>, <<"b", "e", "e", "n">>,
   <<"b", "e", "i", "n", "g">>, <<"t", "h", "a", "n">>,
   <<"t", "h", "e", "n">>, <<"t", "h", "a", "t">>, <<"t", "h", "i", "s">>,
   <<"t", "h", "e", "s", "e">>, <<"t", "h", "o", "s", "e">>,
   <<"t", "h", "e", "r", "e">>, <<"h", "e", "r", "e">>, <<"i", "t">>,
   <<"i", "t", "s">>, <<"i", "t", "'", "s">>, <<"t", "h", "e", "i", "r">>,
   <<"t", "h", "e", "i", "r", "s">>, <<"o", "u", "r">>,
   <<"o", "u", "r", "s">>, <<"y", "o", "u", "r">>,
   <<"y", "o", "u", "r", "s">>, <<"i">>, <<"m", "e">>, <<"m", "y">>,
   <<"m", "i", "n", "e">>, <<"w", "e">>, <<"u", "s">>, <<"y", "o", "u">>,
   <<"h", "e">>, <<"h", "i", "m">>, <<"h", "i", "s">>, <<"s", "h", "e">>,
   <<"h", "e", "r">>, <<"t", "h", "e", "y">>, <<"t", "h", "e", "m">>,
   <<"w", "h", "o">>, <<"w", "h", "o", "m">>, <<"w", "h", "i", "c", "h">>,
   <<"w", "h", "a", "t">>, <<"w", "h", "y">>, <<"h", "o", "w">>,
   <<"n", "o", "t">>, <<"n", "o">>, <<"n", "o", "r">>, <<"s", "o">>,
   <<"s", "u", "c", "h">>, <<"t", "o", "o">>, <<"v", "e", "r", "y">>,
   <<"c", "a", "n">>, <<"w", "i", "l", "l">>, <<"j", "u", "s", "t">>,
   <<"d", "o">>, <<"d", "o", "e", "s">>, <<"d", "i", "d">>,
   <<"h", "a", "v", "e">>, <<"h", "a", "s">>, <<"h", "a", "d">>,
   <<"u", "p">>, <<"d", "o", "w", "n">>, <<"o", "u", "t">>,
   <<"m", "o", "r", "e">>, <<"m", "o", "s", "t">>,
   <<"o", "t", "h", "e", "r">>, <<"s", "o", "m", "e">>, <<"a", "n", "y">>,
   <<"e", "a", "c", "h">>, <<"f", "e", "w">>, <<"o", "w", "n">>,
   <<"s", "a", "m", "e">>, <<"s">>, <<"t">>, <<"d", "o", "n">>,
   <<"s", "h", "o", "u", "l", "d">>, <<"n", "o", "w">>}

\* t.isdigit()
IsDigits(t) == Len(t) > 0 /\ \A i \in 1..Len(t) : t[i] \in Digits

\* tokenize that does not look at the stop words
TokenizeKeepStop(text) ==
  LET low  == [i \in 1..Len(text) |-> Lower(text[i])]
      toks == FindWords(StripUrls(low, 1), 1)
  IN  SelectSeq(toks, LAMBDA t :
        \/ t[1] \in {"#", "@"}
        \/ ~IsDigits(t) /\ Len(t) >= 3)

tokenize(text) ==
  LET low  == [i \in 1..Len(text) |-> Lower(text[i])]
      toks == FindWords(StripUrls(low, 1), 1)
  IN  SelectSeq(toks, LAMBDA t :
        \/ t[1] \in {"#", "@"}
        \/ t \notin EN_STOP /\ ~IsDigits(t) /\ Len(t) >= 3)

\* the keys of a Counter fed with toks, in the order they were first met
RECURSIVE CounterKeys(_, _)
CounterKeys(toks, seen) ==
  IF toks = <<>> THEN <<>>
  ELSE IF Head(toks) \in seen THEN CounterKeys(Tail(toks), seen)
  ELSE <<Head(toks)>> \o CounterKeys(Tail(toks), seen \cup {Head(toks)})

\* c.most_common(): the (word, count) pairs by descending count, words of
\* one count in the order they were first met
RECURSIVE MostCommon(_, _)
MostCommon(keys, toks) ==
  IF keys = <<>> THEN <<>>
  ELSE LET n(w) == Cardinality({i \in 1..Len(toks) : toks[i] = w})
           k == SetMin({i \in 1..Len(keys) :
                          \A j \in 1..Len(keys) : n(keys[i]) >= n(keys[j])})
       IN  <<[word |-> keys[k], count |-> n(keys[k])]>>
           \o MostCommon([j \in 1..(Len(keys) - 1) |->
                            IF j < k THEN keys[j] ELSE keys[j + 1]], toks)

\* series of texts one after the other, their tokens in one sequence
RECURSIVE AllTokens(_)
AllTokens(series) ==
  IF series = <<>> THEN <<>>
  ELSE tokenize(Head(series)) \o AllTokens(Tail(series))

top_keywords(series, k) ==
  LET toks == AllTokens(series)
  IN  TakeHead(MostCommon(CounterKeys(toks, {}), toks), k)

KeywordCap == 15    \* keywords_all = top_keywords(df['comment_text'], k=15)

MaxWords == 3       \* the most words of a generated text

\* the words the generated texts are made of
Vocabulary ==
  {<<"C", "h", "e", "c", "k">>,
   <<"t", "h", "i", "s">>,
   <<"o", "u", "t">>,
   <<"h", "t", "t", "p", ":", "/", "/", "x", ".", "c", "o">>,
   <<"#", "g", "r", "e", "a", "t">>,
   <<"a", "m", "a", "z", "i", "n", "g">>,
   <<"4", "2">>,
   <<"o", "k">>,
   <<"w", "w", "w", ".", "x", ".", "c", "o">>}

\* "Check this out http://x.co #great #great amazing"
ExampleWords ==
  <<<<"C", "h", "e", "c", "k">>,
    <<"t", "h", "i", "s">>,
    <<"o", "u", "t">>,
    <<"h", "t", "t", "p", ":", "/", "/", "x", ".", "c", "o">>,
    <<"#", "g", "r", "e", "a", "t">>,
    <<"#", "g", "r", "e", "a", "t">>,
    <<"a", "m", "a", "z", "i", "n", "g">>>>

\* the words with one space between each two of them
RECURSIVE JoinWords(_)
JoinWords(ws) ==
  IF ws = <<>> THEN <<>>
  ELSE IF Len(ws) = 1 THEN ws[1]
  ELSE ws[1] \o <<" ">> \o JoinWords(Tail(ws))

Texts ==
  {ExampleWords} \cup UNION {[1..n -> Vocabulary] : n \in 0..MaxWords}

IdleKw ==
  /\ kw_pc = "off"
  /\ kw_words = <<>>
  /\ kw_out = <<>>

InitKw ==
  /\ kw_pc = "text"
  /\ kw_words \in Texts
  /\ kw_out = <<>>

\* keywords_all = top_keywords(df['comment_text'], k=15) for a table of one
\* comment
TopKeywords ==
  /\ kw_pc = "text"
  /\ kw_pc' = "done"
  /\ kw_out' = top_keywords(<<JoinWords(kw_words)>>, KeywordCap)
  /\ UNCHANGED <<kw_words, notKw>>

NextKw == TopKeywords

(***************************************************************************)
(* Specifications                                                          *)
(***************************************************************************)
GetStart == InitGet /\ IdleEng /\ IdleHist /\ IdleReq /\ IdleConc /\ IdleNorm /\ IdleIns
  /\ IdleTa /\ IdleKw
SpecGet == GetStart /\ [][NextGet]_vars

EngStart == InitEng /\ IdleGet /\ IdleHist /\ IdleReq /\ IdleConc /\ IdleNorm /\ IdleIns
  /\ IdleTa /\ IdleKw
SpecEng == EngStart /\ [][NextEng]_vars

HistStart == InitHist /\ IdleGet /\ IdleEng /\ IdleReq /\ IdleConc /\ IdleNorm /\ IdleIns
  /\ IdleTa /\ IdleKw
SpecHist == HistStart /\ [][NextHist]_vars

FileStart == InitFile /\ IdleGet /\ IdleEng /\ IdleReq /\ IdleConc /\ IdleNorm /\ IdleIns
  /\ IdleTa /\ IdleKw
SpecFile == FileStart /\ [][NextFile]_vars

ConcStart == InitConc /\ IdleGet /\ IdleEng /\ IdleReq /\ IdleNorm /\ IdleIns
  /\ IdleTa /\ IdleKw
SpecConc == ConcStart /\ [][NextConc]_vars

NormStart ==
  /\ InitNorm /\ IdleGet /\ IdleEng /\ IdleHist /\ IdleReq /\ IdleConc
  /\ IdleIns /\ IdleTa /\ IdleKw
SpecNorm == NormStart /\ [][NextNorm]_vars

InsStart ==
  /\ InitIns /\ IdleGet /\ IdleEng /\ IdleHist /\ IdleReq /\ IdleConc
  /\ IdleNorm /\ IdleTa /\ IdleKw
SpecIns == InsStart /\ [][NextIns]_vars

WinStart ==
  /\ InitWin /\ IdleGet /\ IdleHist /\ IdleReq /\ IdleConc /\ IdleNorm
  /\ IdleIns /\ IdleTa /\ IdleKw
SpecWin == WinStart /\ [][NextWin]_vars

TaStart ==
  /\ InitTa /\ IdleGet /\ IdleEng /\ IdleHist /\ IdleReq /\ IdleConc
  /\ IdleNorm /\ IdleIns /\ IdleKw
SpecTa == TaStart /\ [][NextTa]_vars

KwStart ==
  /\ InitKw /\ IdleGet /\ IdleEng /\ IdleHist /\ IdleReq /\ IdleConc
  /\ IdleNorm /\ IdleIns /\ IdleTa
SpecKw == KwStart /\ [][NextKw]_vars

Init == InitReq /\ IdleGet /\ IdleEng /\ IdleConc /\ IdleNorm /\ IdleIns
  /\ IdleTa /\ IdleKw
Spec == Init /\ [][Next]_vars

(***************************************************************************)
(* Claims about compute_benchmarks                                         *)
(***************************************************************************)
Abs(x) == IF x >= 0 THEN x ELSE -x

HistIds == {hist[k].id : k \in 1..Len(hist)}
WindowIds == {Trailing(hist)[k].id : k \in 1..Len(Trailing(hist))}
TsOf(p) == hist[PosOf(hist, p)].ts
Called == bench.post # 0

\* C1: after compute_benchmarks(post_id, bundle) the snapshots it ranks
\* against are the 20 most recently written ones (all of them when fewer
\* are stored), and the snapshot just written for post_id is among them.
C1_WindowIsMostRecent ==
  Called =>
    /\ bench.post \in WindowIds
    /\ Cardinality(WindowIds) = Min(HistWindow, Cardinality(HistIds))
    /\ \A a \in WindowIds, b \in HistIds \ WindowIds : TsOf(b) <= TsOf(a)

\* C2: the history holds exactly one snapshot per post id ever recorded,
\* and it carries the kpis of the latest call for that post id.
C2_LatestPerPost ==
  /\ \A j, k \in 1..Len(hist) : hist[j].id = hist[k].id => j = k
  /\ HistIds = DOMAIN lastCall
  /\ \A k \in 1..Len(hist) : hist[k].kpis = lastCall[hist[k].id]

\* a post that earlier runs recorded is recorded again with other kpis
\* while the file holds more posts than the window
C2_Witness ==
  /\ Len(hist) > OldPosts
  /\ bench.post = 1
  /\ hist[1].kpis # OldEntry(1).kpis

\* the snapshots of the trailing window that carry metric m
Carrying(m) ==
  {k \in 1..Len(Trailing(hist)) : m \in DOMAIN Trailing(hist)[k].kpis}

\* the current value of metric m in the latest call
CurrentValue(m) == DictGet(DictGet(bench.current, "kpis", EmptyDict), m, 0)

NotAbove(m) ==
  Cardinality({k \in Carrying(m) : Trailing(hist)[k].kpis[m] <= CurrentValue(m)})

\* C4 (as stated): each percentile is exactly 100 * (values <= current) /
\* (values) over the snapshots of the window that carry the metric, and
\* null exactly when none carries it.  Percentiles are in tenths.
C4_ExactPercentile ==
  Called =>
    \A m \in Metrics :
      LET n   == Cardinality(Carrying(m))
          pct == bench.result.percentiles[m]
      IN  /\ (pct = NoPct) <=> (n = 0)
          /\ n > 0 => pct * n = 1000 * NotAbove(m)

\* C4 (amended): each percentile is 100 * (values <= current) / (values)
\* rounded to one decimal place (so within 0.05 of it), and null exactly
\* when no snapshot of the window carries the metric.
C4_RoundedPercentile ==
  Called =>
    \A m \in Metrics :
      LET n   == Cardinality(Carrying(m))
          pct == bench.result.percentiles[m]
      IN  /\ (pct = NoPct) <=> (n = 0)
          /\ n > 0 => 2 * Abs(pct * n - 1000 * NotAbove(m)) <= n

\* a percentile over 16 snapshots that is not a whole number of tenths
C4_Witness ==
  /\ Called
  /\ \E m \in Metrics :
       /\ Cardinality(Carrying(m)) = 16
       /\ bench.result.percentiles[m] * 16 # 1000 * NotAbove(m)

\* the values the monotonicity check puts in place of the current one
ValuesNear(m) ==
  {0} \cup UNION {{Trailing(hist)[k].kpis[m] - 1, Trailing(hist)[k].kpis[m],
                   Trailing(hist)[k].kpis[m] + 1} : k \in Carrying(m)}

\* the percentile of metric m had the latest call carried the value v
PercentileWith(m, v) ==
  LET k  == bench.current["kpis"]
      k2 == [x \in DOMAIN k |-> IF x = m THEN v ELSE k[x]]
      h2 == HistPut(hist, bench.post, [id |-> bench.post, ts |-> now, kpis |-> k2])
  IN  pct_of(Items(h2), m, v)

CarriesMetric(m) ==
  /\ Called
  /\ "kpis" \in DOMAIN bench.current
  /\ m \in DOMAIN bench.current["kpis"]

\* C5: with the snapshots of the other posts fixed, the percentile of a
\* metric does not decrease when the current value of the metric grows.
C5_Monotone ==
  \A m \in Metrics :
    CarriesMetric(m) =>
      \A v1, v2 \in ValuesNear(m) \cup {CurrentValue(m)} :
        v1 <= v2 => PercentileWith(m, v1) <= PercentileWith(m, v2)

\* a larger value of a metric gets a strictly larger percentile than the
\* one the latest call returned
C5_Witness ==
  \E m \in Metrics :
    /\ CarriesMetric(m)
    /\ PercentileWith(m, CurrentValue(m)) = bench.result.percentiles[m]
    /\ \E v \in ValuesNear(m) :
         /\ v > CurrentValue(m)
         /\ PercentileWith(m, v) > bench.result.percentiles[m]

(***************************************************************************)
(* Claims about the engagement columns                                     *)
(***************************************************************************)
\* the value of column c in row r, 0 when the row has no such column
Count(r, c) == IF c \in DOMAIN r THEN r[c] ELSE 0

SevenReactions(r) ==
  Count(r, "like_count") + Count(r, "love_count") + Count(r, "haha_count")
  + Count(r, "wow_count") + Count(r, "sad_count") + Count(r, "angry_count")
  + Count(r, "care_count")

EngagementHolds(r) ==
  /\ r["total_reactions"] = SevenReactions(r)
  /\ r["engagement_score"] = r["total_reactions"] + r["reply_count"]

\* C10: after ensure_engagement_columns every row of the table has
\* total_reactions = the sum of the seven reaction counts of the fetched
\* row (0 for a column the fetched table lacks) and engagement_score =
\* total_reactions + reply_count (0 when the fetched table lacks it), and
\* both equalities hold in every row of a time-windowed slice that is handed
\* to compute_insights.
C10_EngagementColumns ==
  /\ (eng_pc = "cached" /\ ~IsEmpty(eng_raw)) =>
       /\ Len(eng_df.rows) = Len(eng_raw.rows)
       /\ \A k \in 1..Len(eng_df.rows) :
            /\ eng_df.rows[k]["total_reactions"]
                 = SevenReactions(eng_raw.rows[k])
            /\ eng_df.rows[k]["engagement_score"]
                 = SevenReactions(eng_raw.rows[k])
                   + Count(eng_raw.rows[k], "reply_count")
            /\ EngagementHolds(eng_df.rows[k])
  /\ \A k \in 1..Len(eng_dfw.rows) : EngagementHolds(eng_dfw.rows[k])

\* a proper slice of a table that was fetched without the care_count
\* column, or with a comment that has care reactions, went to
\* compute_insights
C10_Witness ==
  /\ ~IsEmpty(eng_dfw)
  /\ Len(eng_dfw.rows) < Len(eng_df.rows)
  /\ \/ "care_count" \notin eng_raw.cols
     \/ \E k \in 1..Len(eng_dfw.rows) : eng_dfw.rows[k]["care_count"] > 0

(***************************************************************************)
(* Claims about _get                                                       *)
(***************************************************************************)
AllTransient(s) == \A k \in 1..Len(s) : s[k] \in TransientStatus

\* C8 (as stated): the first wait is 2 and every later wait is double the
\* wait before it (2, 4, 8, ...).
C8_WaitsDouble ==
  \A k \in 1..Len(get_slept) :
    get_slept[k] = IF k = 1 THEN 2 ELSE 2 * get_slept[k - 1]

\* C8 (amended): the first wait is 2 and every later wait is 2 more than the
\* wait before it (2, 4, 6, ...), whatever tries is.
C8_WaitsIncrement ==
  \A k \in 1..Len(get_slept) :
    get_slept[k] = IF k = 1 THEN 2 ELSE get_slept[k - 1] + 2

C8_Witness == Len(get_slept) >= 3 /\ AllTransient(get_resps)

\* C9: with tries >= 1, _get issues at most tries requests and can always
\* go on until it ends; it returns the first non-transient response at
\* once, and when all tries responses are transient it returns the last
\* one instead of raising.
C9_GetBounded ==
  get_tries >= 1 =>
    /\ Len(get_resps) <= get_tries
    /\ get_pc = "loop" =>
         /\ get_i < get_tries
         /\ get_i = Len(get_resps)
         /\ AllTransient(get_resps)
    /\ get_pc = "done" =>
         /\ get_resps # <<>>
         /\ get_ret = get_resps[Len(get_resps)]
         /\ AllTransient(SubSeq(get_resps, 1, Len(get_resps) - 1))
         /\ get_ret \in TransientStatus => Len(get_resps) = get_tries
    /\ Len(get_resps) = get_tries =>
         /\ get_pc = "done"
         /\ get_ret = get_resps[get_tries]

C9_Witness ==
  /\ get_pc = "done"
  /\ get_tries >= 2
  /\ Len(get_resps) = get_tries
  /\ get_ret \in TransientStatus

(***************************************************************************)
(* Claims about compute_benchmarks in concurrent requests                  *)
(***************************************************************************)

\* C3: across any sequence of compute_benchmarks calls, the history file
\* holds for every post id a call was made for a snapshot, and it is the
\* one written by the last call for that id; a call for one id never loses
\* the snapshot of another id.
C3_NoLostSnapshot ==
  \A p \in DOMAIN lastCall :
    /\ PosOf(hist, p) # 0
    /\ hist[PosOf(hist, p)].kpis = lastCall[p]

(***************************************************************************)
(* Claims about _POST_CACHE and the request handlers                       *)
(***************************************************************************)
UsesBundle == {"analyze_view", "api_analyze_window"}

\* C6: once _get_post_bundle has returned for a post id, every later call
\* for that id returns the same bundle without fetching again, and no step
\* removes an entry of _POST_CACHE or replaces it by another.
C6_CacheStable ==
  [][/\ \A p \in DOMAIN cache :
          /\ p \in DOMAIN cache'
          /\ cache'[p] = cache[p]
     /\ (resp' # resp /\ resp'.handler \in UsesBundle
           /\ resp'.post \in DOMAIN cache)
          => /\ ~resp'.fetched
             /\ resp'.bundle = cache[resp'.post]]_vars

\* a request served from the cache although the post has more comments now
C6_Witness ==
  /\ resp.handler \in UsesBundle
  /\ ~resp.fetched
  /\ resp.post \in DOMAIN cache
  /\ resp.bundle = cache[resp.post]
  /\ remote[resp.post] > cache[resp.post].at

\* what a handler works out from the comments the post has for the
\* caller's token at the request
FreshData(r) ==
  IF r.handler = "api_analyze_window"
    THEN WindowData(BundleTable(PostTable(r.post, r.avail)), r.args)
    ELSE BundleData(PostTable(r.post, r.avail))

Analyzers == {"analyze_view", "api_analyze", "api_analyze_window"}

\* C7 as stated: the insights of analyze_view, api_analyze and
\* api_analyze_window are computed from the comments the post has at the
\* time of the request.
C7_AlwaysFresh ==
  resp.handler \in Analyzers => resp.data = FreshData(resp)

\* C7 amended: api_analyze computes from the comments the post has at the
\* time of the request; analyze_view and api_analyze_window compute from
\* the cached bundle, which holds the comments the post had when the
\* bundle was fetched, and that is the time of the request only when the
\* request is the one that fetched.
C7_FreshOrCached ==
  /\ resp.handler = "api_analyze" => resp.data = FreshData(resp)
  /\ resp.handler \in UsesBundle =>
       /\ resp.post \in DOMAIN cache
       /\ cache[resp.post].at <= remote[resp.post]
       /\ resp.fetched => cache[resp.post].at = resp.avail
       /\ resp.data = FreshData([resp EXCEPT !.avail = cache[resp.post].at])

\* api_analyze answers with insights the cached bundle does not have
C7_Witness ==
  /\ resp.handler = "api_analyze"
  /\ resp.post \in DOMAIN cache
  /\ resp.avail > cache[resp.post].at
  /\ resp.data = FreshData(resp)
  /\ resp.data # cache[resp.post].data

(***************************************************************************)
(* Claims about ensure_engagement_columns as a function                    *)
(***************************************************************************)
NormCalled == norm_how \in {"direct", "copy", "again"}

\* C11: ensure_engagement_columns is idempotent: applied to a table it has
\* already normalized, it returns a table with the same columns and the
\* same total_reactions and engagement_score in every row.
C11_Idempotent ==
  norm_how = "again" =>
    /\ norm_ret.cols = norm_prev.cols
    /\ Len(norm_ret.rows) = Len(norm_prev.rows)
    /\ \A k \in 1..Len(norm_ret.rows) :
         /\ norm_ret.rows[k]["total_reactions"]
              = norm_prev.rows[k]["total_reactions"]
         /\ norm_ret.rows[k]["engagement_score"]
              = norm_prev.rows[k]["engagement_score"]

\* a second call on a table with reactions and replies in some row
C11_Witness ==
  /\ norm_how = "again"
  /\ \E k \in 1..Len(norm_ret.rows) :
       /\ norm_ret.rows[k]["total_reactions"] > 0
       /\ norm_ret.rows[k]["engagement_score"]
            > norm_ret.rows[k]["total_reactions"]

\* C12 as stated: the table object passed in has the same columns and
\* values after the call as before it, for every input table.
C12_ArgumentUntouched ==
  NormCalled => norm_arg = norm_prev

\* C12 amended: the call assigns the columns to the table object passed in
\* and returns that object, so the object changes whenever it lacked a
\* column or held other totals; the caller's table stays as it was when
\* the caller passes a copy.
C12_AssignsInPlace ==
  NormCalled =>
    /\ norm_arg = norm_ret
    /\ norm_arg = ensure_engagement_columns(norm_prev)
    /\ norm_how = "copy" => norm_df = norm_prev
    /\ norm_how \in {"direct", "again"} => norm_df = norm_ret

\* a direct call on a table without the two columns: the caller's table
\* has them afterwards
C12_Witness ==
  /\ norm_how = "direct"
  /\ norm_prev.rows # <<>>
  /\ "total_reactions" \notin norm_prev.cols
  /\ {"total_reactions", "engagement_score"} \subseteq norm_df.cols

(***************************************************************************)
(* Claims about compute_insights                                           *)
(***************************************************************************)
InsDone == ins_pc = "done" /\ ~ins_raised /\ ins_out # EmptyDict

NonIncreasing(s) == \A k \in 1..(Len(s) - 1) : s[k] >= s[k + 1]

\* C13: in every bundle of compute_insights the three values of the
\* sentiment distribution are each >= 0 and add up to kpis.total_comments,
\* whatever labels the sentiment column holds.
C13_SentimentSums ==
  InsDone =>
    LET v == ins_out.sentiment.values
    IN  /\ Len(v) = 3
        /\ \A k \in 1..3 : v[k] >= 0
        /\ v[1] + v[2] + v[3] = ins_out.kpis.total_comments
        /\ ins_out.kpis.total_comments = Len(ins_raw.rows)

\* a table with a label outside positive / negative / neutral
C13_Witness ==
  /\ InsDone
  /\ \E k \in 1..Len(ins_raw.rows) :
       ins_raw.rows[k]["sentiment"] \notin {"positive", "negative", "neutral"}
  /\ ins_out.sentiment.values[1] > 0
  /\ ins_out.sentiment.values[3] > 0

AllZero(s) == \A k \in 1..Len(s) : s[k] = 0

\* C19: for an empty comment table the bundle has every KPI zero and every
\* list and distribution empty, and no path raises.
C19_EmptyAllZero ==
  (ins_pc = "done" /\ IsEmpty(ins_raw)) =>
    /\ ~ins_raised
    /\ ins_out # EmptyDict =>
         /\ \A m \in DOMAIN ins_out.kpis : ins_out.kpis[m] = 0
         /\ \A d \in {"sentiment", "emotions", "languages", "reactions",
                        "timeline"} : ins_out[d].values = <<>>

Sliced == eng_pc = "sliced" /\ "created_time" \in eng_df.cols

\* the valid timestamps of the table given to _apply_time_window
TableTimes ==
  {eng_df.rows[k]["created_time"] : k \in 1..Len(eng_df.rows)} \ {NaT}

StartGiven == IsTime(eng_args.start)
EndGiven == IsTime(eng_args.end)

\* a range token of amount N and unit d/h, and neither start nor end
ByRange ==
  /\ ~StartGiven /\ ~EndGiven
  /\ eng_args.rng.given /\ eng_args.rng.amt # NoDigits

RangeHours ==
  IF eng_args.rng.unit = "d" THEN 24 * eng_args.rng.amt ELSE eng_args.rng.amt

\* the bounds the claim names (used where the table has a valid timestamp)
LowerBound ==
  IF ByRange THEN SetMax(TableTimes) - RangeHours
  ELSE IF StartGiven THEN eng_args.start ELSE SetMin(TableTimes)

UpperBound ==
  IF ByRange THEN SetMax(TableTimes)
  ELSE IF EndGiven THEN eng_args.end ELSE SetMax(TableTimes)

InBounds(r) ==
  /\ IsTime(r["created_time"])
  /\ LowerBound <= r["created_time"]
  /\ r["created_time"] <= UpperBound

\* C14: _apply_time_window returns exactly the rows whose timestamp t has
\* start <= t <= end, both bounds included, and changes no row; with a
\* range token of amount N and unit d/h and neither start nor end, end is
\* the greatest timestamp of the table and start is it minus N days/hours;
\* a missing bound is the least / greatest timestamp of the table.
C14_InclusiveWindow ==
  Sliced =>
    /\ eng_dfw.cols = eng_df.cols
    /\ eng_dfw.rows = IF TableTimes = {} THEN <<>>
                       ELSE SelectSeq(eng_df.rows, InBounds)

\* a slice by a range token that keeps the row on its end bound and drops
\* a row from before its start bound
C14_Witness ==
  /\ Sliced
  /\ ByRange
  /\ \E k \in 1..Len(eng_dfw.rows) :
       eng_dfw.rows[k]["created_time"] = UpperBound
  /\ \E k \in 1..Len(eng_df.rows) :
       /\ IsTime(eng_df.rows[k]["created_time"])
       /\ eng_df.rows[k]["created_time"] < LowerBound
  /\ Len(eng_dfw.rows) < Len(eng_df.rows)

(***************************************************************************)
(* Claims about _time_analytics                                            *)
(***************************************************************************)
TaDone == ta_pc = "done"

\* C15: for one emotion whose counts per bucket are [1,1,1,1,1,10],
\* _time_analytics reports the last bucket as a spike.
C15_LastBucketSpike ==
  (TaDone /\ ta_df = SeriesTable(<<1, 1, 1, 1, 1, 10>>)) =>
    /\ ~ta_raised
    /\ [emotion |-> "joy", at |-> 6, value |-> 10] \in ta_out.spikes

\* the table holds only positive comments, two or more, each one minute
\* after the one before
OnlyPositiveMinuteApart ==
  /\ Len(ta_df.rows) >= 2
  /\ "created_time" \in ta_df.cols
  /\ \A k \in 1..Len(ta_df.rows) :
       /\ SentClass(ta_df.rows[k]["sentiment"]) = "positive"
       /\ IsTime(ta_df.rows[k]["created_time"])
  /\ \A k \in 2..Len(ta_df.rows) :
       ta_df.rows[k]["created_time"] = ta_df.rows[k - 1]["created_time"] + 1

\* C16 as stated: for only positive comments one minute apart the
\* positive-to-positive lift is strictly greater than 1.0 and the
\* positive-to-neutral and positive-to-negative entries are 0.
C16_LiftAboveOne ==
  (TaDone /\ OnlyPositiveMinuteApart) =>
    /\ ~ta_raised
    /\ ta_out.matrix[1][1] > 100
    /\ ta_out.matrix[1][2] = 0
    /\ ta_out.matrix[1][3] = 0

\* C16 amended: for only positive comments one minute apart the
\* positive-to-positive lift is exactly 1.0 (every transition is positive
\* to positive and the base rate of positive is 1), and the
\* positive-to-neutral and positive-to-negative entries are 0.
C16_LiftIsOne ==
  (TaDone /\ OnlyPositiveMinuteApart) =>
    /\ ~ta_raised
    /\ ta_out.matrix[1][1] = 100
    /\ ta_out.matrix[1][2] = 0
    /\ ta_out.matrix[1][3] = 0

\* three positive comments one minute apart went through _time_analytics
C16_Witness ==
  /\ TaDone
  /\ ~ta_raised
  /\ OnlyPositiveMinuteApart
  /\ Len(ta_df.rows) >= 3
  /\ ta_out.matrix[1][1] = 100

\* C17: in the contagion matrix a row whose source sentiment has no
\* observed transition has every cell equal to the no-signal ratio 1.0.
C17_NoSignalRow ==
  (TaDone /\ ~ta_raised /\ ta_out.matrix # <<>>) =>
    \A i \in 1..3 :
      (\A j \in 1..3 :
         Trans(ta_df, ContagionLabels[i], ContagionLabels[j]) = 0)
      => \A j \in 1..3 : ta_out.matrix[i][j] = 100

\* C18: when a table holds rows with an unparseable created_time and rows
\* with a valid one, _time_analytics completes without raising and its
\* time-based aggregates are computed over the rows with valid timestamps.
C18_BadStampsSkipped ==
  (/\ TaDone
   /\ "created_time" \in ta_df.cols
   /\ \E k \in 1..Len(ta_df.rows) : ~IsTime(ta_df.rows[k]["created_time"])
   /\ \E k \in 1..Len(ta_df.rows) : IsTime(ta_df.rows[k]["created_time"]))
  => /\ ~ta_raised
     /\ ta_out.timeline = TimelineValues(ta_df)
     /\ SumSeq(ta_out.timeline) = Len(TimedRows(ta_df))


(***************************************************************************)
(* C21: the daily timeline of compute_insights                             *)
(***************************************************************************)
\* the days on which the comments of the table given to compute_insights
\* fall
InsDays ==
  {ins_raw.rows[k]["created_time"] \div 24 :
     k \in {j \in 1..Len(ins_raw.rows) :
              IsTime(ins_raw.rows[j]["created_time"])}}

\* every comment of the table carries a timestamp
InsAllTimed ==
  \A k \in 1..Len(ins_raw.rows) : IsTime(ins_raw.rows[k]["created_time"])

\* C21: for a table whose comments all carry a timestamp and fall on k
\* distinct UTC days, the daily timeline has k labels and k counts, the
\* labels are these k days in ascending order, every count is at least 1
\* and is the number of comments of its day, and the counts sum to the
\* number of rows.
C21_DailyTimeline ==
  (InsDone /\ ~ins_raised /\ ins_out # EmptyDict /\ InsAllTimed) =>
    LET tl == ins_out.timeline
    IN  /\ Len(tl.labels) = Cardinality(InsDays)
        /\ Len(tl.values) = Cardinality(InsDays)
        /\ {tl.labels[i] : i \in 1..Len(tl.labels)} = InsDays
        /\ \A i \in 1..(Len(tl.labels) - 1) : tl.labels[i] < tl.labels[i + 1]
        /\ \A i \in 1..Len(tl.values) :
              /\ tl.values[i] >= 1
              /\ tl.values[i] =
                   Cardinality({k \in 1..Len(ins_raw.rows) :
                      ins_raw.rows[k]["created_time"] \div 24 = tl.labels[i]})
        /\ SumSeq(tl.values) = Len(ins_raw.rows)

\* comments on exactly three days, two of them on one day and a day
\* without comments between the first and the last
C21_Witness ==
  /\ InsDone /\ ~ins_raised /\ ins_out # EmptyDict /\ InsAllTimed
  /\ Cardinality(InsDays) = 3
  /\ \E d \in SetMin(InsDays)..SetMax(InsDays) : d \notin InsDays
  /\ Len(ins_raw.rows) = 3
  /\ Len(ins_out.timeline.labels) = 3

\* comments on three days, more comments than days
C21_WitnessShared ==
  /\ InsDone /\ ~ins_raised /\ InsAllTimed
  /\ Cardinality(InsDays) = 3
  /\ Len(ins_raw.rows) > 3
  /\ SumSeq(ins_out.timeline.values) = Len(ins_raw.rows)

(***************************************************************************)
(* C22: half_life_hours and t_first10_hours                                *)
(***************************************************************************)
\* the timestamps of the table given to _time_analytics
TaTimes ==
  IF "created_time" \in ta_df.cols
    THEN {ta_df.rows[k]["created_time"] : k \in 1..Len(ta_df.rows)}
    ELSE {}

\* the comments the buckets hold
TaTotal == IF "created_time" \in ta_df.cols THEN Len(ta_df.rows) ELSE 0

\* the bucket width in minutes: 15 up to a span of six hours, else 60
TaWidth ==
  IF TaTimes = {} \/ SetMax(TaTimes) - SetMin(TaTimes) <= 6 * 60
    THEN 15 ELSE 60

\* the comments in the buckets 0..i, bucket 0 the one of the first comment
TaUpTo(i) ==
  Cardinality({k \in 1..Len(ta_df.rows) :
     ta_df.rows[k]["created_time"]
       < ((SetMin(TaTimes) \div TaWidth) + i + 1) * TaWidth})

\* h hundredths of an hour is the first bucket whose running count is
\* at least num / den, times the bucket width
AtFirstBucket(h, num, den) ==
  \E i \in 0..Len(ta_out.timeline) :
    /\ 60 * h = 100 * i * TaWidth
    /\ den * TaUpTo(i) >= num
    /\ i > 0 => den * TaUpTo(i - 1) < num

\* C22: half_life_hours is null exactly when no comment is in the buckets,
\* and else is the first bucket index at which the running count reaches
\* half the total, times the bucket width in hours; t_first10_hours is null
\* exactly when the total is below 10, and else is the first bucket index
\* at which the running count reaches 10, times the same width.
C22_HalfLifeAndFirstTen ==
  (TaDone /\ ~ta_raised) =>
    /\ (ta_out.half_life_hours = NoHours) <=> (TaTotal = 0)
    /\ (ta_out.t_first10_hours = NoHours) <=> (TaTotal < 10)
    /\ TaTotal > 0 => AtFirstBucket(ta_out.half_life_hours, TaTotal, 2)
    /\ TaTotal >= 10 => AtFirstBucket(ta_out.t_first10_hours, 10, 1)

\* hourly buckets, ten comments or more, the half reached after the first
\* bucket and before the tenth comment
C22_Witness ==
  /\ TaDone /\ ~ta_raised
  /\ TaWidth = 60
  /\ TaTotal >= 10
  /\ ta_out.half_life_hours > 0
  /\ ta_out.t_first10_hours > ta_out.half_life_hours

\* quarter-hour buckets, ten comments or more
C22_WitnessQuarter ==
  /\ TaDone /\ ~ta_raised
  /\ TaWidth = 15
  /\ TaTotal >= 10
  /\ ta_out.half_life_hours > 0
  /\ ta_out.t_first10_hours >= ta_out.half_life_hours

(***************************************************************************)
(* C23: keyword extraction on the example text                             *)
(***************************************************************************)
KwDone == kw_pc = "done"

\* the words of kw_out
KwWords == {kw_out[i].word : i \in 1..Len(kw_out)}

\* the count kw_out gives for the word w, 0 if it is not listed
KwCount(w) ==
  IF \E i \in 1..Len(kw_out) : kw_out[i].word = w
    THEN kw_out[CHOOSE i \in 1..Len(kw_out) : kw_out[i].word = w].count
    ELSE 0

\* a word of the text in lower case
LowerWord(w) == [i \in 1..Len(w) |-> Lower(w[i])]

\* the word is a URL
IsUrl(w) == \E n \in 1..Len(UrlPrefixes) : HasAt(LowerWord(w), 1, UrlPrefixes[n])

\* no keyword comes from the URL of the example
UrlDropped ==
  KwWords \cap {<<"http">>, <<"x">>, <<"co">>,
                <<"h", "t", "t", "p">>, <<"c", "o">>,
                LowerWord(ExampleWords[4])} = {}

\* C23 as stated: for the example text the URL is dropped, #great is
\* counted twice and amazing once, and every other word of three or more
\* characters is kept.
C23_NothingElseDropped ==
  (KwDone /\ kw_words = ExampleWords) =>
    /\ UrlDropped
    /\ KwCount(<<"#", "g", "r", "e", "a", "t">>) = 2
    /\ KwCount(<<"a", "m", "a", "z", "i", "n", "g">>) = 1
    /\ \A i \in 1..Len(ExampleWords) :
          (~IsUrl(ExampleWords[i]) /\ Len(ExampleWords[i]) >= 3)
            => LowerWord(ExampleWords[i]) \in KwWords

\* C23: for the example text the keywords are #great counted twice, then
\* check and amazing counted once each: the URL is dropped and so are the
\* stop words this and out, though they have three or more characters.  For
\* every generated text, a word that is not a URL is a keyword exactly when
\* it is a hashtag, or has three or more characters, is not a number and is
\* not a stop word, and its count is the number of times the text holds it.
C23_StopWordsDropped ==
  KwDone =>
    /\ kw_words = ExampleWords =>
          /\ UrlDropped
          /\ kw_out = << [word |-> <<"#", "g", "r", "e", "a", "t">>, count |-> 2],
                         [word |-> <<"c", "h", "e", "c", "k">>, count |-> 1],
                         [word |-> <<"a", "m", "a", "z", "i", "n", "g">>,
                          count |-> 1] >>
          /\ <<"t", "h", "i", "s">> \notin KwWords
          /\ <<"o", "u", "t">> \notin KwWords
    /\ \A i \in 1..Len(kw_words) :
          LET w == LowerWord(kw_words[i])
          IN  ~IsUrl(w) =>
                /\ w \in KwWords <=>
                     \/ w[1] = "#"
                     \/ /\ Len(w) >= 3
                        /\ w \notin EN_STOP
                        /\ \E j \in 1..Len(w) : w[j] \notin Digits
                /\ w \in KwWords =>
                     KwCount(w) = Cardinality({j \in 1..Len(kw_words) :
                                                LowerWord(kw_words[j]) = w})
    /\ \A i \in 1..(Len(kw_out) - 1) : kw_out[i].count >= kw_out[i + 1].count

\* the keywords of the example text have been extracted
C23_Witness ==
  /\ KwDone
  /\ kw_words = ExampleWords
  /\ KwCount(<<"#", "g", "r", "e", "a", "t">>) = 2
  /\ Len(kw_out) = 3

(***************************************************************************)
(* C24: the cached table is not changed by later requests                  *)
(***************************************************************************)
\* C24: every table in _POST_CACHE has the columns and the row values of
\* the table _get_post_bundle built when it cached the post, whatever
\* analyze_view and api_analyze_window requests came after.
C24_CachedTableKept ==
  \A p \in DOMAIN cache :
    LET built == BundleTable(PostTable(p, cache[p].at))
    IN  /\ cache[p].df.cols = built.cols
        /\ cache[p].df.rows = built.rows

\* the top_comments view served from a cached table that has rows
C24_Witness ==
  /\ resp.handler = "analyze_view"
  /\ resp.view = "top_comments"
  /\ ~resp.fetched
  /\ resp.post \in DOMAIN cache
  /\ ~IsEmpty(cache[resp.post].df)
  /\ "engagement_score" \in cache[resp.post].df.cols
  /\ "_ts" \notin cache[resp.post].df.cols

(***************************************************************************)
(* C25: the transition counts of the contagion matrix                      *)
(***************************************************************************)
\* the comments of the table have timestamps, no two the same
TaDistinctTimes ==
  /\ "created_time" \in ta_df.cols
  /\ \A k \in 1..Len(ta_df.rows) : IsTime(ta_df.rows[k]["created_time"])
  /\ \A k, l \in 1..Len(ta_df.rows) :
       k # l => ta_df.rows[k]["created_time"] # ta_df.rows[l]["created_time"]

\* comment l is the next one in time after comment k
NextInTime(k, l) ==
  /\ ta_df.rows[k]["created_time"] < ta_df.rows[l]["created_time"]
  /\ \A m \in 1..Len(ta_df.rows) :
       ~(/\ ta_df.rows[k]["created_time"] < ta_df.rows[m]["created_time"]
         /\ ta_df.rows[m]["created_time"] < ta_df.rows[l]["created_time"])

\* the pairs of a comment of class a and the next one in time, of class b,
\* that are at most 30 minutes apart
ClosePairs(a, b) ==
  {pr \in (1..Len(ta_df.rows)) \X (1..Len(ta_df.rows)) :
     /\ NextInTime(pr[1], pr[2])
     /\ ta_df.rows[pr[2]]["created_time"]
          - ta_df.rows[pr[1]]["created_time"] <= 30
     /\ SentClass(ta_df.rows[pr[1]]["sentiment"]) = a
     /\ SentClass(ta_df.rows[pr[2]]["sentiment"]) = b}

\* C25: the transition count of (s1, s2) is the number of pairs of a
\* comment of sentiment s1 and the next comment in time, of sentiment s2,
\* that are at most 30 minutes apart, exactly 30 minutes included, and the
\* nine counts sum to at most the number of comments less one.
C25_TransitionCounts ==
  (TaDone /\ ~ta_raised /\ ~IsEmpty(ta_df) /\ TaDistinctTimes) =>
    /\ \A i, j \in 1..3 :
          ta_out.trans[i][j] =
            Cardinality(ClosePairs(ContagionLabels[i], ContagionLabels[j]))
    /\ SumSeq([i \in 1..3 |-> SumSeq(ta_out.trans[i])])
          <= Len(ta_df.rows) - 1

\* comments exactly 30 minutes apart, the latest first in the table, with a
\* counted transition from positive to negative
C25_Witness ==
  /\ TaDone /\ ~ta_raised /\ TaDistinctTimes
  /\ Len(ta_df.rows) >= 3
  /\ ta_df.rows[1]["created_time"] = ta_df.rows[2]["created_time"] + 30
  /\ ta_out.trans[1][3] >= 1
  /\ SumSeq([i \in 1..3 |-> SumSeq(ta_out.trans[i])]) = Len(ta_df.rows) - 1

(***************************************************************************)
(* C26: no series of counts has a spike                                    *)
(***************************************************************************)
\* the square of x
Sq(x) == x * x

\* C26: whenever _time_analytics returns, its spikes list is empty, and for
\* every emotion and every three buckets in a row with the counts x, y, z
\* the z-score of the last one, (z - mean) / sd with the mean and the
\* sample standard deviation of the three, has a square of at most 4/3:
\* (2z - x - y)^2 <= 2 * ((x - y)^2 + (y - z)^2 + (x - z)^2), so it is below
\* 2.0.
C26_NeverASpike ==
  (TaDone /\ ~ta_raised) =>
    /\ ta_out.spikes = {}
    /\ \A c \in DOMAIN ta_out.emotion_stack :
         \A i \in 3..Len(ta_out.emotion_stack[c]) :
           LET x == ta_out.emotion_stack[c][i - 2]
               y == ta_out.emotion_stack[c][i - 1]
               z == ta_out.emotion_stack[c][i]
           IN  /\ x >= 0 /\ y >= 0 /\ z >= 0
               /\ Sq(2 * z - x - y)
                    <= 2 * (Sq(x - y) + Sq(y - z) + Sq(x - z))

\* an emotion with no comment, then one, then four in three buckets in a
\* row, and no spike reported
C26_Witness ==
  /\ TaDone /\ ~ta_raised
  /\ "anger" \in DOMAIN ta_out.emotion_stack
  /\ \E i \in 3..Len(ta_out.emotion_stack["anger"]) :
       /\ ta_out.emotion_stack["anger"][i - 2] = 0
       /\ ta_out.emotion_stack["anger"][i - 1] = 1
       /\ ta_out.emotion_stack["anger"][i] = 4
  /\ ta_out.spikes = {}

(***************************************************************************)
(* C27: the cache is keyed by the post id alone                            *)
(***************************************************************************)
\* C27: for a cached post id _get_post_bundle returns the cached bundle to
\* every token, the token that may not fetch the post included; the bundle
\* a request got is the one in the cache, and it was built from what the
\* token that fetched first was given, which is the caller's token only if
\* the request is the one that fetched.
C27_KeyedByPostAlone ==
  /\ \A p \in DOMAIN cache :
       /\ owner[p] \in Tokens
       /\ \A tok \in Tokens : GetPostBundle(tok, p) = cache[p]
       /\ ~Allowed(owner[p], p) => cache[p].at = 0
  /\ resp.handler \in UsesBundle =>
       /\ resp.post \in DOMAIN cache
       /\ resp.bundle = cache[resp.post]
       /\ resp.fetched => owner[resp.post] = resp.token

\* token B, which may not fetch the post, is given the comments that were
\* fetched with token A
C27_Witness ==
  /\ resp.handler \in UsesBundle
  /\ resp.token = "B"
  /\ ~Allowed("B", resp.post)
  /\ resp.post \in DOMAIN cache
  /\ owner[resp.post] = "A"
  /\ ~resp.fetched
  /\ resp.avail = 0
  /\ ~IsEmpty(resp.bundle.df)

\* token A, which may fetch the post, is given the empty bundle that was
\* cached when token B asked first
C27_WitnessEmpty ==
  /\ resp.handler \in UsesBundle
  /\ resp.token = "A"
  /\ resp.post \in DOMAIN cache
  /\ owner[resp.post] = "B"
  /\ resp.avail > 0
  /\ IsEmpty(resp.bundle.df)

(***************************************************************************)
(* C28: _get waits after every transient response                          *)
(***************************************************************************)
\* C28: _get has waited once for each transient response it received, the
\* wait after the response of attempt index i being 2 * (i + 1) seconds;
\* when it returns with every one of its tries responses transient it has
\* waited after the last attempt too, tries * (tries + 1) seconds in all,
\* which is 12 seconds for tries = 3.
C28_WaitAfterEveryTransient ==
  /\ Len(get_slept) =
       Cardinality({k \in 1..Len(get_resps) : get_resps[k] \in TransientStatus})
  /\ \A k \in 1..Len(get_resps) :
       get_resps[k] \in TransientStatus =>
         /\ k <= Len(get_slept)
         /\ get_slept[k] = 2 * ((k - 1) + 1)
  /\ (get_pc = "done" /\ AllTransient(get_resps)) =>
       /\ Len(get_resps) = get_tries
       /\ Len(get_slept) = get_tries
       /\ SumSeq(get_slept) = get_tries * (get_tries + 1)
       /\ get_tries = 3 => SumSeq(get_slept) = 12
       /\ get_ret = get_resps[get_tries]

\* _get has returned the third of three transient responses, after waits
\* of 2, 4 and 6 seconds
C28_Witness ==
  /\ get_pc = "done"
  /\ get_tries = 3
  /\ AllTransient(get_resps)
  /\ get_slept = <<2, 4, 6>>
  /\ get_ret \in TransientStatus

(***************************************************************************)
(* C29: when the history file is there and json.load cannot parse it,      *)
(* compute_benchmarks returns as it does after any other call: it ranks    *)
(* the current post against an empty history, the file it leaves holds the *)
(* snapshot of the current post and no other (every earlier snapshot is    *)
(* gone), and count_history is 1 when the bundle has kpis and 0 when it    *)
(* has none.  A call is the one step that makes the file parseable again.  *)
(***************************************************************************)
C29_UnparseableFileIsEmpty ==
  [][(~hist_ok /\ hist_ok') =>
       LET snap == [id |-> bench'.post, ts |-> now,
                    kpis |-> DictGet(bench'.current, "kpis", EmptyDict)]
       IN  /\ hist' = <<snap>>
           /\ bench'.result = BenchResult(<<snap>>, bench'.current)
           /\ bench'.result.count_history <= 1
           /\ bench'.result.count_history =
                (IF snap.kpis = EmptyDict THEN 0 ELSE 1)]_vars

\* a call found twenty snapshots in a file it could not parse and left one
C29_Witness ==
  /\ hist_ok
  /\ Len(hist) = 1
  /\ hist[1].id = bench.post
  /\ Cardinality(DOMAIN lastCall) >= OldPosts
  /\ bench.result.count_history = 1

(***************************************************************************)
(* C30: the history file changes only in a step that serves the benchmark  *)
(* view: the other views of analyze_view, api_analyze, api_analyze_window, *)
(* the CSV export, the redirects, a new comment and the clock leave it as  *)
(* it is.  Every request analyze_view serves for the benchmark view of a   *)
(* post leaves, at the place the post has in the file, the snapshot        *)
(* [ts = now, kpis = the kpis of the bundle it rendered], and changes the  *)
(* snapshot of no other post.                                              *)
(***************************************************************************)
IsRequestStep == now' = now /\ remote' = remote

ServedBenchmark(r) == r.handler = "analyze_view" /\ r.view = "benchmark"

C30_OnlyBenchmarkWrites ==
  [][/\ hist' # hist => (IsRequestStep /\ ServedBenchmark(resp'))
     /\ (IsRequestStep /\ ServedBenchmark(resp')) =>
          LET q == resp'.post
          IN  /\ PosOf(hist', q) # 0
              /\ hist'[PosOf(hist', q)] =
                   [id |-> q, ts |-> now,
                    kpis |-> DictGet(resp'.data, "kpis", EmptyDict)]
              /\ PosOf(hist, q) # 0 =>
                   (PosOf(hist', q) = PosOf(hist, q) /\ Len(hist') = Len(hist))
              /\ \A k \in 1..Len(hist) :
                   hist[k].id # q => hist'[k] = hist[k]]_vars

\* the benchmark view of the post recorded first was served again after the
\* clock moved, and a request for another view came after it: the snapshot
\* carries the later time, the one of the other post the earlier time
C30_Witness ==
  /\ Len(hist) = 2
  /\ hist[1].ts = 1
  /\ hist[2].ts = 0
  /\ resp.handler = "api_analyze"
  /\ resp.post = hist[1].id
  /\ now = 1
====
